---------------------------- MODULE Spec2Model ----------------------------
(***************************************************************************)
(* A model of the FileOrganizer core: the classification and alias         *)
(* catalogs (extensions.cpp, filesystem_utils.cpp), the path validator,    *)
(* the folder normalizer, the collision-safe transfer primitives and the   *)
(* iterative directory walk of organize_directory (organizer.cpp).         *)
(*                                                                         *)
(* A file or folder name is a sequence of one-character strings, a path is *)
(* a sequence of names, so that extension extraction, lower-casing and the *)
(* "stem(k)ext" renaming are computed character by character as the code   *)
(* computes them.                                                          *)
(***************************************************************************)
EXTENDS Integers, Sequences, FiniteSets, TLC

(***************************************************************************)
(* Bounds of the model.                                                    *)
(***************************************************************************)
\* number of entries below the root in a starting tree
MaxEntries == 4
\* number of operating-system failures injected in one behaviour
MaxFaults == 1
\* number of successive organize runs in one behaviour
MaxRuns == 2
\* number of clicks on the organize button that start a run
MaxClicks == 2
\* number of files of one name that meet in one destination folder
MaxCollisions == 3

(***************************************************************************)
(* Characters and strings.                                                 *)
(***************************************************************************)
\* ::tolower on one character (C locale)
tolower(c) ==
  CASE c = "A" -> "a" [] c = "B" -> "b" [] c = "C" -> "c" [] c = "D" -> "d"
    [] c = "E" -> "e" [] c = "F" -> "f" [] c = "G" -> "g" [] c = "H" -> "h"
    [] c = "I" -> "i" [] c = "J" -> "j" [] c = "K" -> "k" [] c = "L" -> "l"
    [] c = "M" -> "m" [] c = "N" -> "n" [] c = "O" -> "o" [] c = "P" -> "p"
    [] c = "Q" -> "q" [] c = "R" -> "r" [] c = "S" -> "s" [] c = "T" -> "t"
    [] c = "U" -> "u" [] c = "V" -> "v" [] c = "W" -> "w" [] c = "X" -> "x"
    [] c = "Y" -> "y" [] c = "Z" -> "z" [] OTHER -> c

\* std::transform(s.begin(), s.end(), s.begin(), ::tolower)
to_lower(s) == [i \in 1..Len(s) |-> tolower(s[i])]

\* std::to_string of a non-negative int
RECURSIVE to_string(_)
to_string(n) ==
  LET digit == <<"0","1","2","3","4","5","6","7","8","9">>
  IN  IF n < 10 THEN <<digit[n + 1]>>
      ELSE to_string(n \div 10) \o <<digit[(n % 10) + 1]>>

(***************************************************************************)
(* The Classification Catalog (extensions.cpp).  A std::map is iterated in *)
(* the order of its keys, which is the order of the sequence below.        *)
(***************************************************************************)
CATEGORY_EXTENSION_MAP ==
  <<
    [name |-> <<"A","r","c","h","i","v","e"," ","F","i","l","e","s">>,
     extensions |-> {
        <<"7","z">>,
        <<"b","z","2">>,
        <<"g","z">>,
        <<"r","a","r">>,
        <<"t","a","r">>,
        <<"t","g","z">>,
        <<"x","z">>,
        <<"z","i","p">>}],
    [name |-> <<"A","u","d","i","o"," ","F","i","l","e","s">>,
     extensions |-> {
        <<"a","a","c">>,
        <<"a","i","f","f">>,
        <<"f","l","a","c">>,
        <<"m","4","a">>,
        <<"m","p","3">>,
        <<"o","g","g">>,
        <<"o","p","u","s">>,
        <<"w","a","v">>,
        <<"w","m","a">>}],
    [name |-> <<"C"," ","F","i","l","e","s">>,
     extensions |-> {
        <<"c">>}],
    [name |-> <<"C","+","+"," ","F","i","l","e","s">>,
     extensions |-> {
        <<"c","c">>,
        <<"c","p","p">>,
        <<"c","x","x">>}],
    [name |-> <<"C","o","n","f","i","g"," ","F","i","l","e","s">>,
     extensions |-> {
        <<"c","f","g">>,
        <<"c","o","n","f">>,
        <<"e","n","v">>,
        <<"i","n","i">>}],
    [name |-> <<"D","a","t","a"," ","F","i","l","e","s">>,
     extensions |-> {
        <<"c","s","v">>,
        <<"j","s","o","n">>,
        <<"x","m","l">>,
        <<"y","a","m","l">>,
        <<"y","m","l">>}],
    [name |-> <<"D","a","t","a","b","a","s","e"," ","F","i","l","e","s">>,
     extensions |-> {
        <<"d","b">>,
        <<"m","d","b">>,
        <<"s","q","l">>,
        <<"s","q","l","i","t","e">>,
        <<"s","q","l","i","t","e","3">>}],
    [name |-> <<"E","x","c","e","l"," ","F","i","l","e","s">>,
     extensions |-> {
        <<"x","l","s">>,
        <<"x","l","s","x">>}],
    [name |-> <<"E","x","e","c","u","t","a","b","l","e"," ","F","i","l","e","s">>,
     extensions |-> {
        <<"a","p","k">>,
        <<"a","p","p">>,
        <<"b","i","n">>,
        <<"e","x","e">>,
        <<"m","s","i">>}],
    [name |-> <<"G","o"," ","F","i","l","e","s">>,
     extensions |-> {
        <<"g","o">>}],
    [name |-> <<"H","e","a","d","e","r"," ","F","i","l","e","s">>,
     extensions |-> {
        <<"h">>,
        <<"h","h">>,
        <<"h","p","p">>,
        <<"h","x","x">>}],
    [name |-> <<"I","m","a","g","e"," ","F","i","l","e","s">>,
     extensions |-> {
        <<"b","m","p">>,
        <<"g","i","f">>,
        <<"h","e","i","c">>,
        <<"i","c","o">>,
        <<"j","p","e","g">>,
        <<"j","p","g">>,
        <<"p","n","g">>,
        <<"s","v","g">>,
        <<"t","i","f","f">>,
        <<"w","e","b","p">>}],
    [name |-> <<"J","a","v","a"," ","F","i","l","e","s">>,
     extensions |-> {
        <<"j","a","v","a">>}],
    [name |-> <<"J","a","v","a","S","c","r","i","p","t"," ","F","i","l","e","s">>,
     extensions |-> {
        <<"j","s">>}],
    [name |-> <<"L","i","b","r","a","r","y"," ","F","i","l","e","s">>,
     extensions |-> {
        <<"a">>,
        <<"d","l","l">>,
        <<"d","y","l","i","b">>,
        <<"l","i","b">>,
        <<"s","o">>}],
    [name |-> <<"P","D","F"," ","F","i","l","e","s">>,
     extensions |-> {
        <<"p","d","f">>}],
    [name |-> <<"P","H","P"," ","F","i","l","e","s">>,
     extensions |-> {
        <<"p","h","p">>}],
    [name |-> <<"P","o","w","e","r","P","o","i","n","t"," ","F","i","l","e","s">>,
     extensions |-> {
        <<"p","p","t">>,
        <<"p","p","t","x">>}],
    [name |-> <<"P","y","t","h","o","n"," ","F","i","l","e","s">>,
     extensions |-> {
        <<"p","y">>}],
    [name |-> <<"R","u","s","t"," ","F","i","l","e","s">>,
     extensions |-> {
        <<"r","s">>}],
    [name |-> <<"S","h","e","l","l"," ","S","c","r","i","p","t","s">>,
     extensions |-> {
        <<"s","h">>}],
    [name |-> <<"T","e","x","t"," ","F","i","l","e","s">>,
     extensions |-> {
        <<"l","o","g">>,
        <<"m","d">>,
        <<"n","f","o">>,
        <<"r","t","f">>,
        <<"t","x","t">>}],
    [name |-> <<"T","y","p","e","S","c","r","i","p","t"," ","F","i","l","e","s">>,
     extensions |-> {
        <<"t","s">>}],
    [name |-> <<"V","i","d","e","o"," ","F","i","l","e","s">>,
     extensions |-> {
        <<"3","g","p">>,
        <<"a","v","i">>,
        <<"f","l","v">>,
        <<"m","4","v">>,
        <<"m","k","v">>,
        <<"m","o","v">>,
        <<"m","p","4">>,
        <<"m","p","e","g">>,
        <<"m","p","g">>,
        <<"w","e","b","m">>,
        <<"w","m","v">>}],
    [name |-> <<"W","e","b"," ","F","i","l","e","s">>,
     extensions |-> {
        <<"c","s","s">>,
        <<"h","t","m","l">>,
        <<"s","c","s","s">>}],
    [name |-> <<"W","o","r","d"," ","F","i","l","e","s">>,
     extensions |-> {
        <<"d","o","c">>,
        <<"d","o","c","x">>}]
  >>

(***************************************************************************)
(* The Alias Catalog (filesystem_utils.cpp), in key order.                 *)
(***************************************************************************)
CATEGORY_ALIAS_MAP ==
  <<
    [name |-> <<"A","r","c","h","i","v","e"," ","F","i","l","e","s">>,
     aliases |-> {
        <<"a","r","c","h","i","v","e">>,
        <<"a","r","c","h","i","v","e","s">>,
        <<"b","a","c","k","u","p"," ","a","r","c","h","i","v","e","s">>,
        <<"b","a","c","k","u","p","s">>,
        <<"c","o","m","p","r","e","s","s","e","d">>,
        <<"c","o","m","p","r","e","s","s","e","d"," ","f","i","l","e","s">>,
        <<"r","a","r"," ","f","i","l","e","s">>,
        <<"z","i","p"," ","f","i","l","e","s">>}],
    [name |-> <<"A","u","d","i","o"," ","F","i","l","e","s">>,
     aliases |-> {
        <<"a","l","a","r","m","s">>,
        <<"a","l","b","u","m","s">>,
        <<"a","m","b","i","e","n","t"," ","s","o","u","n","d","s">>,
        <<"a","u","d","i","o">>,
        <<"a","u","d","i","o","b","o","o","k","s">>,
        <<"a","u","d","i","o","s">>,
        <<"b","a","c","k","g","r","o","u","n","d"," ","m","u","s","i","c">>,
        <<"b","e","a","t","s">>,
        <<"c","o","n","c","e","r","t","s">>,
        <<"d","e","m","o","s">>,
        <<"d","r","a","f","t"," ","m","i","x","e","s">>,
        <<"e","x","p","o","r","t","s">>,
        <<"f","i","n","a","l"," ","m","i","x","e","s">>,
        <<"i","n","s","t","r","u","m","e","n","t","a","l","s">>,
        <<"i","n","t","e","r","v","i","e","w","s"," ","a","u","d","i","o">>,
        <<"l","e","c","t","u","r","e","s"," ","a","u","d","i","o">>,
        <<"l","i","v","e"," ","r","e","c","o","r","d","i","n","g","s">>,
        <<"l","o","o","p","s">>,
        <<"m","a","s","t","e","r","s">>,
        <<"m","e","e","t","i","n","g","s"," ","a","u","d","i","o">>,
        <<"m","u","s","i","c">>,
        <<"n","a","t","u","r","e"," ","s","o","u","n","d","s">>,
        <<"n","o","t","i","f","i","c","a","t","i","o","n","s">>,
        <<"p","l","a","y","l","i","s","t">>,
        <<"p","l","a","y","l","i","s","t","s">>,
        <<"p","o","d","c","a","s","t">>,
        <<"p","o","d","c","a","s","t","s">>,
        <<"p","r","a","c","t","i","c","e">>,
        <<"r","e","c","o","r","d","i","n","g","s">>,
        <<"r","e","h","e","a","r","s","a","l","s">>,
        <<"r","i","n","g","t","o","n","e","s">>,
        <<"s","a","m","p","l","e","s">>,
        <<"s","f","x">>,
        <<"s","o","n","g","s">>,
        <<"s","o","u","n","d"," ","e","f","f","e","c","t","s">>,
        <<"t","r","a","c","k","s">>,
        <<"v","o","i","c","e"," ","n","o","t","e","s">>,
        <<"v","o","i","c","e"," ","r","e","c","o","r","d","i","n","g","s">>}],
    [name |-> <<"C"," ","F","i","l","e","s">>,
     aliases |-> {
        <<"c">>,
        <<"c"," ","f","i","l","e","s">>,
        <<"c"," ","l","a","n","g","u","a","g","e">>,
        <<"c"," ","p","r","o","g","r","a","m","s">>,
        <<"c"," ","s","o","u","r","c","e">>}],
    [name |-> <<"C","+","+"," ","F","i","l","e","s">>,
     aliases |-> {
        <<"c","+","+">>,
        <<"c","+","+"," ","p","r","o","g","r","a","m","s">>,
        <<"c","+","+"," ","s","o","u","r","c","e">>,
        <<"c","p","l","u","s","p","l","u","s">>,
        <<"c","p","p">>,
        <<"c","p","p"," ","f","i","l","e","s">>}],
    [name |-> <<"C","o","n","f","i","g"," ","F","i","l","e","s">>,
     aliases |-> {
        <<"c","o","n","f","i","g">>,
        <<"c","o","n","f","i","g","s">>,
        <<"c","o","n","f","i","g","u","r","a","t","i","o","n">>,
        <<"e","n","v"," ","f","i","l","e","s">>,
        <<"e","n","v","i","r","o","n","m","e","n","t"," ","c","o","n","f","i","g">>,
        <<"s","e","t","t","i","n","g","s">>}],
    [name |-> <<"D","a","t","a","b","a","s","e"," ","F","i","l","e","s">>,
     aliases |-> {
        <<"d","a","t","a","b","a","s","e">>,
        <<"d","a","t","a","b","a","s","e","s">>,
        <<"d","b">>,
        <<"d","b"," ","f","i","l","e","s">>,
        <<"s","q","l"," ","f","i","l","e","s">>,
        <<"s","q","l","i","t","e">>}],
    [name |-> <<"E","x","c","e","l"," ","F","i","l","e","s">>,
     aliases |-> {
        <<"a","c","c","o","u","n","t","s">>,
        <<"b","u","d","g","e","t","s">>,
        <<"e","x","c","e","l">>,
        <<"e","x","c","e","l"," ","f","i","l","e","s">>,
        <<"e","x","p","e","n","s","e","s">>,
        <<"f","i","n","a","n","c","i","a","l"," ","s","h","e","e","t","s">>,
        <<"r","e","p","o","r","t","s"," ","e","x","c","e","l">>,
        <<"s","h","e","e","t","s">>,
        <<"s","p","r","e","a","d","s","h","e","e","t","s">>,
        <<"t","a","b","l","e","s">>,
        <<"t","r","a","c","k","i","n","g"," ","s","h","e","e","t","s">>}],
    [name |-> <<"E","x","e","c","u","t","a","b","l","e"," ","F","i","l","e","s">>,
     aliases |-> {
        <<"a","p","p","l","i","c","a","t","i","o","n","s">>,
        <<"a","p","p","s">>,
        <<"b","i","n","a","r","i","e","s">>,
        <<"e","x","e","c","u","t","a","b","l","e","s">>,
        <<"i","n","s","t","a","l","l","e","r","s">>,
        <<"p","r","o","g","r","a","m","s">>}],
    [name |-> <<"G","o"," ","F","i","l","e","s">>,
     aliases |-> {
        <<"g","o">>,
        <<"g","o"," ","f","i","l","e","s">>,
        <<"g","o"," ","p","r","o","g","r","a","m","s">>,
        <<"g","o"," ","s","o","u","r","c","e">>,
        <<"g","o","l","a","n","g">>}],
    [name |-> <<"I","m","a","g","e"," ","F","i","l","e","s">>,
     aliases |-> {
        <<"a","r","t","w","o","r","k">>,
        <<"b","a","c","k","g","r","o","u","n","d","s">>,
        <<"b","i","r","t","h","d","a","y"," ","p","h","o","t","o","s">>,
        <<"c","a","m","e","r","a">>,
        <<"c","a","m","e","r","a"," ","r","o","l","l">>,
        <<"c","o","n","c","e","p","t"," ","a","r","t">>,
        <<"e","d","i","t","e","d"," ","p","h","o","t","o","s">>,
        <<"e","v","e","n","t"," ","p","h","o","t","o","s">>,
        <<"f","a","m","i","l","y"," ","p","h","o","t","o","s">>,
        <<"f","i","n","a","l"," ","i","m","a","g","e","s">>,
        <<"g","a","l","l","e","r","y">>,
        <<"g","r","a","p","h","i","c","s">>,
        <<"i","c","o","n","s">>,
        <<"i","l","l","u","s","t","r","a","t","i","o","n","s">>,
        <<"i","m","a","g","e">>,
        <<"i","m","a","g","e","s">>,
        <<"i","m","g">>,
        <<"i","m","g","s">>,
        <<"i","n","s","p","i","r","a","t","i","o","n">>,
        <<"l","a","n","d","s","c","a","p","e","s">>,
        <<"l","o","g","o","s">>,
        <<"n","a","t","u","r","e"," ","p","h","o","t","o","s">>,
        <<"p","h","o","t","o">>,
        <<"p","h","o","t","o"," ","g","a","l","l","e","r","y">>,
        <<"p","h","o","t","o","g","r","a","p","h","y">>,
        <<"p","h","o","t","o","s">>,
        <<"p","i","c">>,
        <<"p","i","c","s">>,
        <<"p","i","c","t","u","r","e">>,
        <<"p","i","c","t","u","r","e","s">>,
        <<"p","o","r","t","r","a","i","t","s">>,
        <<"p","r","i","n","t","s">>,
        <<"r","a","w"," ","i","m","a","g","e","s">>,
        <<"r","e","f","e","r","e","n","c","e","s">>,
        <<"s","c","a","n","s">>,
        <<"s","c","r","e","e","n","s","h","o","t","s">>,
        <<"s","e","l","f","i","e","s">>,
        <<"s","t","r","e","e","t"," ","p","h","o","t","o","s">>,
        <<"t","h","u","m","b","n","a","i","l","s">>,
        <<"t","r","a","v","e","l"," ","p","h","o","t","o","s">>,
        <<"v","a","c","a","t","i","o","n"," ","p","h","o","t","o","s">>,
        <<"w","a","l","l","p","a","p","e","r","s">>,
        <<"w","e","d","d","i","n","g"," ","p","h","o","t","o","s">>}],
    [name |-> <<"J","a","v","a"," ","F","i","l","e","s">>,
     aliases |-> {
        <<"j","a","v","a">>,
        <<"j","a","v","a"," ","f","i","l","e","s">>,
        <<"j","a","v","a"," ","p","r","o","g","r","a","m","s">>,
        <<"j","a","v","a"," ","s","o","u","r","c","e">>}],
    [name |-> <<"J","a","v","a","S","c","r","i","p","t"," ","F","i","l","e","s">>,
     aliases |-> {
        <<"j","a","v","a","s","c","r","i","p","t">>,
        <<"j","a","v","a","s","c","r","i","p","t"," ","f","i","l","e","s">>,
        <<"j","s"," ","f","i","l","e","s">>,
        <<"j","s"," ","s","o","u","r","c","e">>}],
    [name |-> <<"L","i","b","r","a","r","y"," ","F","i","l","e","s">>,
     aliases |-> {
        <<"l","i","b","r","a","r","i","e","s">>,
        <<"l","i","b","s">>,
        <<"s","h","a","r","e","d"," ","l","i","b","r","a","r","i","e","s">>,
        <<"s","t","a","t","i","c"," ","l","i","b","r","a","r","i","e","s">>}],
    [name |-> <<"P","D","F"," ","F","i","l","e","s">>,
     aliases |-> {
        <<"d","o","c","u","m","e","n","t","s"," ","p","d","f">>,
        <<"e","b","o","o","k","s">>,
        <<"i","n","v","o","i","c","e","s"," ","p","d","f">>,
        <<"m","a","n","u","a","l","s"," ","p","d","f">>,
        <<"p","d","f">>,
        <<"p","d","f"," ","f","i","l","e","s">>,
        <<"p","d","f","s">>,
        <<"r","e","p","o","r","t","s"," ","p","d","f">>,
        <<"s","c","a","n","n","e","d"," ","p","d","f","s">>,
        <<"s","t","a","t","e","m","e","n","t","s"," ","p","d","f">>}],
    [name |-> <<"P","H","P"," ","F","i","l","e","s">>,
     aliases |-> {
        <<"p","h","p">>,
        <<"p","h","p"," ","f","i","l","e","s">>,
        <<"p","h","p"," ","s","c","r","i","p","t","s">>,
        <<"p","h","p"," ","s","o","u","r","c","e">>}],
    [name |-> <<"P","o","w","e","r","P","o","i","n","t"," ","F","i","l","e","s">>,
     aliases |-> {
        <<"l","e","c","t","u","r","e"," ","s","l","i","d","e","s">>,
        <<"m","e","e","t","i","n","g"," ","s","l","i","d","e","s">>,
        <<"p","i","t","c","h"," ","d","e","c","k","s">>,
        <<"p","o","w","e","r","p","o","i","n","t">>,
        <<"p","o","w","e","r","p","o","i","n","t"," ","f","i","l","e","s">>,
        <<"p","p","t"," ","f","i","l","e","s">>,
        <<"p","p","t","x"," ","f","i","l","e","s">>,
        <<"p","r","e","s","e","n","t","a","t","i","o","n","s">>,
        <<"s","l","i","d","e","s">>}],
    [name |-> <<"P","y","t","h","o","n"," ","F","i","l","e","s">>,
     aliases |-> {
        <<"p","y"," ","s","c","r","i","p","t","s">>,
        <<"p","y","t","h","o","n">>,
        <<"p","y","t","h","o","n"," ","f","i","l","e","s">>,
        <<"p","y","t","h","o","n"," ","p","r","o","g","r","a","m","s">>,
        <<"p","y","t","h","o","n"," ","s","c","r","i","p","t","s">>,
        <<"p","y","t","h","o","n"," ","s","o","u","r","c","e">>}],
    [name |-> <<"R","u","s","t"," ","F","i","l","e","s">>,
     aliases |-> {
        <<"r","s"," ","f","i","l","e","s">>,
        <<"r","u","s","t">>,
        <<"r","u","s","t"," ","f","i","l","e","s">>,
        <<"r","u","s","t"," ","p","r","o","g","r","a","m","s">>,
        <<"r","u","s","t"," ","s","o","u","r","c","e">>}],
    [name |-> <<"S","h","e","l","l"," ","S","c","r","i","p","t","s">>,
     aliases |-> {
        <<"b","a","s","h"," ","s","c","r","i","p","t","s">>,
        <<"s","h","e","l","l">>,
        <<"s","h","e","l","l"," ","s","c","r","i","p","t","s">>,
        <<"t","e","r","m","i","n","a","l"," ","s","c","r","i","p","t","s">>}],
    [name |-> <<"T","e","x","t"," ","F","i","l","e","s">>,
     aliases |-> {
        <<"d","o","c","u","m","e","n","t","a","t","i","o","n">>,
        <<"d","r","a","f","t"," ","n","o","t","e","s">>,
        <<"l","o","g","s">>,
        <<"m","a","r","k","d","o","w","n">>,
        <<"n","o","t","e","s">>,
        <<"p","l","a","i","n"," ","t","e","x","t">>,
        <<"r","e","a","d","m","e">>,
        <<"t","e","x","t">>,
        <<"t","e","x","t"," ","f","i","l","e","s">>,
        <<"t","e","x","t","s">>,
        <<"t","x","t"," ","f","i","l","e","s">>}],
    [name |-> <<"T","y","p","e","S","c","r","i","p","t"," ","F","i","l","e","s">>,
     aliases |-> {
        <<"t","s"," ","f","i","l","e","s">>,
        <<"t","s"," ","s","o","u","r","c","e">>,
        <<"t","y","p","e","s","c","r","i","p","t">>,
        <<"t","y","p","e","s","c","r","i","p","t"," ","f","i","l","e","s">>}],
    [name |-> <<"V","i","d","e","o"," ","F","i","l","e","s">>,
     aliases |-> {
        <<"b"," ","r","o","l","l">>,
        <<"c","l","i","p","s">>,
        <<"c","o","u","r","s","e","s">>,
        <<"d","a","s","h","c","a","m">>,
        <<"d","r","o","n","e"," ","f","o","o","t","a","g","e">>,
        <<"e","d","i","t","s">>,
        <<"e","v","e","n","t"," ","v","i","d","e","o","s">>,
        <<"f","a","m","i","l","y"," ","v","i","d","e","o","s">>,
        <<"f","i","l","m","s">>,
        <<"f","i","n","a","l"," ","c","u","t","s">>,
        <<"g","a","m","e","p","l","a","y">>,
        <<"h","i","g","h","l","i","g","h","t","s">>,
        <<"i","n","t","e","r","v","i","e","w","s">>,
        <<"l","e","c","t","u","r","e","s">>,
        <<"m","e","e","t","i","n","g","s"," ","r","e","c","o","r","d","i","n","g","s">>,
        <<"m","o","n","t","a","g","e">>,
        <<"m","o","v","i","e">>,
        <<"m","o","v","i","e","s">>,
        <<"r","a","w"," ","f","o","o","t","a","g","e">>,
        <<"r","e","c","o","r","d","i","n","g","s">>,
        <<"r","e","e","l","s">>,
        <<"s","c","r","e","e","n"," ","c","a","p","t","u","r","e","s">>,
        <<"s","c","r","e","e","n"," ","r","e","c","o","r","d","i","n","g","s">>,
        <<"s","h","o","r","t","s">>,
        <<"s","l","o","w"," ","m","o","t","i","o","n">>,
        <<"s","t","r","e","a","m","s">>,
        <<"t","i","m","e","l","a","p","s","e">>,
        <<"t","r","a","i","l","e","r","s">>,
        <<"t","r","a","v","e","l"," ","v","i","d","e","o","s">>,
        <<"t","u","t","o","r","i","a","l"," ","v","i","d","e","o","s">>,
        <<"v","a","c","a","t","i","o","n"," ","v","i","d","e","o","s">>,
        <<"v","i","d">>,
        <<"v","i","d","e","o">>,
        <<"v","i","d","e","o","s">>,
        <<"v","i","d","s">>,
        <<"v","l","o","g","s">>,
        <<"w","a","l","k","t","h","r","o","u","g","h","s">>,
        <<"w","e","b","i","n","a","r","s">>,
        <<"w","e","d","d","i","n","g"," ","v","i","d","e","o","s">>}],
    [name |-> <<"W","e","b"," ","F","i","l","e","s">>,
     aliases |-> {
        <<"c","s","s"," ","f","i","l","e","s">>,
        <<"f","r","o","n","t","e","n","d">>,
        <<"f","r","o","n","t","e","n","d"," ","f","i","l","e","s">>,
        <<"h","t","m","l"," ","f","i","l","e","s">>,
        <<"w","e","b">>,
        <<"w","e","b"," ","f","i","l","e","s">>}],
    [name |-> <<"W","o","r","d"," ","F","i","l","e","s">>,
     aliases |-> {
        <<"a","s","s","i","g","n","m","e","n","t","s">>,
        <<"c","o","v","e","r"," ","l","e","t","t","e","r","s">>,
        <<"d","o","c"," ","f","i","l","e","s">>,
        <<"d","o","c","u","m","e","n","t","s"," ","w","o","r","d">>,
        <<"d","o","c","x"," ","f","i","l","e","s">>,
        <<"e","s","s","a","y","s">>,
        <<"l","e","t","t","e","r","s">>,
        <<"r","e","p","o","r","t","s"," ","w","o","r","d">>,
        <<"r","e","s","u","m","e","s">>,
        <<"w","o","r","d">>,
        <<"w","o","r","d"," ","f","i","l","e","s">>}]
  >>

\* the fallback category returned by classify_file_by_extension
Others == <<"O","t","h","e","r","s">>

\* a key set that also holds the fallback category
CANONICAL_NAMES_with_Others ==
  {CATEGORY_EXTENSION_MAP[i].name : i \in DOMAIN CATEGORY_EXTENSION_MAP}
    \cup {Others}

\* the key set of CATEGORY_EXTENSION_MAP
CANONICAL_NAMES ==
  {CATEGORY_EXTENSION_MAP[i].name : i \in DOMAIN CATEGORY_EXTENSION_MAP}

\* the index of the last map entry, in iteration order, that holds e
LastOwner(table, field, e) ==
  CHOOSE i \in DOMAIN table :
    /\ e \in table[i][field]
    /\ \A j \in DOMAIN table : e \in table[j][field] => j <= i

\* extension -> category; lookup[extension] = category.first, later wins
EXTENSION_LOOKUP ==
  [e \in UNION {CATEGORY_EXTENSION_MAP[i].extensions :
                  i \in DOMAIN CATEGORY_EXTENSION_MAP} |->
     CATEGORY_EXTENSION_MAP[LastOwner(CATEGORY_EXTENSION_MAP, "extensions", e)].name]

\* alias -> canonical category; lookup[alias] = category.first, later wins
ALIAS_LOOKUP ==
  [a \in UNION {CATEGORY_ALIAS_MAP[i].aliases :
                  i \in DOMAIN CATEGORY_ALIAS_MAP} |->
     CATEGORY_ALIAS_MAP[LastOwner(CATEGORY_ALIAS_MAP, "aliases", a)].name]

(***************************************************************************)
(* Names: std::filesystem::path::extension, stem, and the classifier.      *)
(***************************************************************************)
\* position of the last '.' of a name, 0 when there is none
LastDot(name) ==
  LET dots == {i \in 1..Len(name) : name[i] = "."}
  IN  IF dots = {} THEN 0
      ELSE CHOOSE i \in dots : \A j \in dots : j <= i

\* "." and ".." and names whose only dot is the first character have no
\* extension
HasExtension(name) ==
  /\ name # <<".">>
  /\ name # <<".", ".">>
  /\ LastDot(name) > 1

\* path::extension(): from the last dot to the end, the dot included
extension(name) ==
  IF HasExtension(name) THEN SubSeq(name, LastDot(name), Len(name)) ELSE <<>>

\* path::stem(): the name without its extension
stem(name) ==
  IF HasExtension(name) THEN SubSeq(name, 1, LastDot(name) - 1) ELSE name

\* path::filename() of a path without a trailing separator
filename(path) == IF path = <<>> THEN <<>> ELSE path[Len(path)]

\* path::parent_path()
parent_path(path) ==
  IF path = <<>> THEN <<>> ELSE SubSeq(path, 1, Len(path) - 1)

\* a classifier that looks the extension up with its leading dot
classify_with_dot(file_path) ==
  LET ext == extension(filename(file_path))
  IN  IF ext = <<>> THEN Others
      ELSE LET e == to_lower(ext)
           IN  IF e \in DOMAIN EXTENSION_LOOKUP THEN EXTENSION_LOOKUP[e]
               ELSE Others

\* a classifier that looks the extension up as it is written
classify_case_sensitive(file_path) ==
  LET ext == extension(filename(file_path))
  IN  IF ext = <<>> THEN Others
      ELSE LET e == Tail(ext)
           IN  IF e \in DOMAIN EXTENSION_LOOKUP THEN EXTENSION_LOOKUP[e]
               ELSE Others

\* category of a file from the extension of its name
classify_file_by_extension(file_path) ==
  LET ext == extension(filename(file_path))
  IN  IF ext = <<>> THEN Others
      ELSE LET e == to_lower(Tail(ext))
           IN  IF e \in DOMAIN EXTENSION_LOOKUP THEN EXTENSION_LOOKUP[e]
               ELSE Others

\* name of the directory a path denotes
get_parent_folder_name(current_directory_level_path) ==
  filename(current_directory_level_path)

(***************************************************************************)
(* The filesystem.  dirs is the set of paths that are directories, files   *)
(* maps the path of each regular file to its content.  The content of a    *)
(* file of a starting tree is its starting path; Partial is the content of *)
(* a file left behind by a copy that failed half way.                      *)
(***************************************************************************)
Partial == <<>>

\* std::filesystem::exists
exists(d, f, p) == p \in d \/ p \in DOMAIN f

\* std::filesystem::is_directory
is_directory(d, f, p) == p \in d

\* std::filesystem::is_regular_file
is_regular_file(d, f, p) == p \in DOMAIN f

\* p lies strictly below the directory dir
Below(dir, p) == Len(p) > Len(dir) /\ SubSeq(p, 1, Len(dir)) = dir

\* what a std::filesystem::directory_iterator over dir can yield
Entries(d, f, dir) ==
  {p \in d \cup DOMAIN f : Len(p) = Len(dir) + 1 /\ Below(dir, p)}

\* rename(2) of a regular file: an existing regular file at new is replaced
MoveFile(f, old, new) ==
  [p \in (DOMAIN f \ {old}) \cup {new} |-> IF p = new THEN f[old] ELSE f[p]]

\* copy_file with overwrite_existing
CopyFile(f, old, new) ==
  [p \in DOMAIN f \cup {new} |-> IF p = new THEN f[old] ELSE f[p]]

\* a copy that stopped half way leaves a truncated file at new
TruncatedCopy(f, new) ==
  [p \in DOMAIN f \cup {new} |-> IF p = new THEN Partial ELSE f[p]]

\* the path of p after the directory old has been renamed to new
Rebase(old, new, p) ==
  IF p = old \/ Below(old, p) THEN new \o SubSeq(p, Len(old) + 1, Len(p))
  ELSE p

\* rename(2) of a directory: the whole subtree moves
RenameDirDirs(d, old, new) == {Rebase(old, new, p) : p \in d}

RenameDirFiles(f, old, new) ==
  [q \in {Rebase(old, new, p) : p \in DOMAIN f} |->
     f[CHOOSE p \in DOMAIN f : Rebase(old, new, p) = q]]

(***************************************************************************)
(* Path Validator.  enum is what constructing a directory_iterator on the  *)
(* root does: "ok", "permission_denied" or "other_error".                  *)
(***************************************************************************)
EnumOutcomes == {"ok", "permission_denied", "other_error"}

validate_path(d, f, root_path, enum) ==
  IF ~ exists(d, f, root_path) THEN "not_found"
  ELSE IF ~ is_directory(d, f, root_path) THEN "not_directory"
  ELSE LET accessible == (enum # "permission_denied")
       IN  IF ~ accessible THEN "permission_denied"
           ELSE IF exists(d, f, root_path) /\ is_directory(d, f, root_path)
                     /\ accessible
                THEN "ok"
                ELSE "unknown_path_error"

\* a validation that lets a missing root through
process_path_validation_lenient(d, f, root_path, enum) ==
  LET ps == validate_path(d, f, root_path, enum)
  IN  CASE ps = "ok" -> "success"
        [] ps = "not_found" -> "success"
        [] ps = "not_directory" -> "not_a_directory"
        [] ps = "permission_denied" -> "permission_denied"
        [] OTHER -> "unknown_error"

process_path_validation(d, f, root_path, enum) ==
  LET ps == validate_path(d, f, root_path, enum)
  IN  CASE ps = "ok" -> "success"
        [] ps = "not_found" -> "path_not_found"
        [] ps = "not_directory" -> "not_a_directory"
        [] ps = "permission_denied" -> "permission_denied"
        [] ps = "unknown_path_error" -> "unknown_error"
        [] OTHER -> "unknown_error"

(***************************************************************************)
(* Folder Normalizer.                                                      *)
(***************************************************************************)
\* the alias folders of one level: directories whose name is not canonical
\* and whose lower-cased name is a key of ALIAS_LOOKUP
AliasFolders(d, f, dir) ==
  {e \in Entries(d, f, dir) :
     /\ is_directory(d, f, e)
     /\ filename(e) \notin CANONICAL_NAMES
     /\ to_lower(filename(e)) \in DOMAIN ALIAS_LOOKUP}

AliasCategory(e) == ALIAS_LOOKUP[to_lower(filename(e))]

\* the possible contents of canonical_folder_map after the scan: for each
\* category with a match, the first match in the (unspecified) order of the
\* directory iterator
CanonicalFolderMaps(d, f, dir) ==
  LET al   == AliasFolders(d, f, dir)
      cats == {AliasCategory(e) : e \in al}
  IN  {m \in [cats -> al] : \A c \in cats : AliasCategory(m[c]) = c}

\* position of a canonical name in key order
KeyIndex(c) ==
  CHOOSE i \in DOMAIN CATEGORY_EXTENSION_MAP : CATEGORY_EXTENSION_MAP[i].name = c

\* can rename(old_path, new_path) of a directory succeed: the new path is
\* free, or it is an empty directory and the platform replaces it (POSIX)
DirRenamePossible(d, f, new_path, replaceEmpty) ==
  \/ ~ exists(d, f, new_path)
  \/ /\ replaceEmpty
     /\ is_directory(d, f, new_path)
     /\ Entries(d, f, new_path) = {}

\* a rename loop that gives up at the first rename that fails
RECURSIVE RenameLoop_stops_at_failure(_, _, _, _, _, _)
RenameLoop_stops_at_failure(d, f, map, todoCats, failed, replaceEmpty) ==
  IF todoCats = {} THEN [dirs |-> d, files |-> f]
  ELSE LET c == CHOOSE x \in todoCats :
                  \A y \in todoCats : KeyIndex(x) <= KeyIndex(y)
           old_path == map[c]
           new_path == Append(parent_path(old_path), c)
           rest == todoCats \ {c}
       IN  IF /\ c \notin failed
              /\ DirRenamePossible(d, f, new_path, replaceEmpty)
           THEN RenameLoop_stops_at_failure(
                  RenameDirDirs(d, old_path, new_path),
                  RenameDirFiles(f, old_path, new_path),
                  map, rest, failed, replaceEmpty)
           ELSE [dirs |-> d, files |-> f]

\* the rename loop over canonical_folder_map, in key order; failed is the set
\* of categories whose rename the operating system refuses
RECURSIVE RenameLoop(_, _, _, _, _, _)
RenameLoop(d, f, map, todoCats, failed, replaceEmpty) ==
  IF todoCats = {} THEN [dirs |-> d, files |-> f]
  ELSE LET c == CHOOSE x \in todoCats :
                  \A y \in todoCats : KeyIndex(x) <= KeyIndex(y)
           old_path == map[c]
           new_path == Append(parent_path(old_path), c)
           rest == todoCats \ {c}
       IN  IF /\ filename(old_path) # c
              /\ c \notin failed
              /\ DirRenamePossible(d, f, new_path, replaceEmpty)
           THEN RenameLoop(RenameDirDirs(d, old_path, new_path),
                           RenameDirFiles(f, old_path, new_path),
                           map, rest, failed, replaceEmpty)
           ELSE RenameLoop(d, f, map, rest, failed, replaceEmpty)

\* a normalizer that creates the canonical folder of every category it met
normalize_category_folder_creating(d, f, dir, map, failed, replaceEmpty) ==
  LET fs == RenameLoop(d, f, map, DOMAIN map, failed, replaceEmpty)
  IN  [dirs |-> fs.dirs \cup {Append(dir, c) : c \in DOMAIN map},
       files |-> fs.files]

normalize_category_folder(d, f, dir, map, failed, replaceEmpty) ==
  RenameLoop(d, f, map, DOMAIN map, failed, replaceEmpty)

(***************************************************************************)
(* Transfer Engine.                                                        *)
(***************************************************************************)
create_directory_status ==
  {"already_exists", "successful_creation", "permission_denied_failure",
   "unknown_failure"}

file_move_status ==
  {"successful_transfer", "permission_denied", "cross_device_error",
   "unknown_failure"}

\* the possible outcomes of create_directory; fault = 1 marks an outcome that
\* needs the operating system to refuse the operation
create_directory(d, f, target) ==
  IF exists(d, f, target)
  THEN {[status |-> "already_exists", dirs |-> d, fault |-> 0]}
  ELSE (IF is_directory(d, f, parent_path(target))
        THEN {[status |-> "successful_creation",
               dirs |-> d \cup {target}, fault |-> 0]}
        ELSE {[status |-> "unknown_failure", dirs |-> d, fault |-> 0]})
       \cup {[status |-> s, dirs |-> d, fault |-> 1] :
               s \in {"permission_denied_failure", "unknown_failure"}}

\* a do-while that increments the counter before it builds the name
RECURSIVE ProbeSkipsOne(_, _, _, _, _, _)
ProbeSkipsOne(d, f, destination_dir, st, ext, counter) ==
  LET new_filename == st \o <<"(">> \o to_string(counter + 1) \o <<")">> \o ext
      target_path  == Append(destination_dir, new_filename)
  IN  IF exists(d, f, target_path)
      THEN ProbeSkipsOne(d, f, destination_dir, st, ext, counter + 1)
      ELSE target_path

\* a do-while that puts the counter behind the extension
RECURSIVE Probe_after_extension(_, _, _, _, _, _)
Probe_after_extension(d, f, destination_dir, st, ext, counter) ==
  LET new_filename == st \o ext \o <<"(">> \o to_string(counter) \o <<")">>
      target_path  == Append(destination_dir, new_filename)
  IN  IF exists(d, f, target_path)
      THEN Probe_after_extension(d, f, destination_dir, st, ext, counter + 1)
      ELSE target_path

\* the do-while of get_unique_path
RECURSIVE Probe(_, _, _, _, _, _)
Probe(d, f, destination_dir, st, ext, counter) ==
  LET new_filename == st \o <<"(">> \o to_string(counter) \o <<")">> \o ext
      target_path  == Append(destination_dir, new_filename)
  IN  IF exists(d, f, target_path)
      THEN Probe(d, f, destination_dir, st, ext, counter + 1)
      ELSE target_path

\* get_unique_path without the collision check
get_unique_path_clobber(d, f, destination_dir, fname) ==
  Append(destination_dir, fname)

get_unique_path(d, f, destination_dir, fname) ==
  LET target_path == Append(destination_dir, fname)
  IN  IF ~ exists(d, f, target_path) THEN target_path
      ELSE Probe(d, f, destination_dir, stem(fname), extension(fname), 1)

\* can rename / copy_file write a regular file at target
FileTargetWritable(d, f, target) ==
  is_directory(d, f, parent_path(target)) /\ ~ is_directory(d, f, target)

\* the error codes a failing rename(2) is injected with
RenameErrors == {"permission_denied", "cross_device_link", "io_error"}

\* the error codes a failing copy_file or remove is injected with
CopyErrors == {"permission_denied", "io_error"}

\* the catch block of atomic_file_transfer
atomic_failure_status(errc) ==
  IF errc = "permission_denied" THEN "permission_denied"
  ELSE IF errc = "cross_device_link" THEN "cross_device_error"
       ELSE "unknown_failure"

\* the catch block of fallback_transfer
fallback_failure_status(errc) ==
  IF errc = "permission_denied" THEN "permission_denied"
  ELSE "unknown_failure"

\* an atomic transfer that moves by copying: a failure may leave a partial
\* copy at the destination
atomic_file_transfer_by_copy(d, f, source_path, destination_dir) ==
  LET new_unique_destination ==
        get_unique_path(d, f, destination_dir, filename(source_path))
  IN  IF FileTargetWritable(d, f, new_unique_destination)
      THEN {[status |-> "successful_transfer",
             files |-> MoveFile(f, source_path, new_unique_destination),
             target |-> new_unique_destination, fault |-> 0,
             errc |-> "none"]}
           \cup {[status |-> atomic_failure_status(e),
                  files |-> TruncatedCopy(f, new_unique_destination),
                  target |-> new_unique_destination, fault |-> 1,
                  errc |-> e] : e \in RenameErrors}
      ELSE {[status |-> "unknown_failure", files |-> f,
             target |-> new_unique_destination, fault |-> 0,
             errc |-> "no_such_file_or_directory"]}

\* the possible outcomes of atomic_file_transfer: rename(2) moves the file,
\* or fails and leaves everything as it was
atomic_file_transfer(d, f, source_path, destination_dir) ==
  LET new_unique_destination ==
        get_unique_path(d, f, destination_dir, filename(source_path))
  IN  (IF FileTargetWritable(d, f, new_unique_destination)
       THEN {[status |-> "successful_transfer",
              files |-> MoveFile(f, source_path, new_unique_destination),
              target |-> new_unique_destination, fault |-> 0,
              errc |-> "none"]}
       ELSE {[status |-> atomic_failure_status("no_such_file_or_directory"),
              files |-> f,
              target |-> new_unique_destination, fault |-> 0,
              errc |-> "no_such_file_or_directory"]})
      \cup {[status |-> atomic_failure_status(e), files |-> f,
             target |-> new_unique_destination, fault |-> 1, errc |-> e] :
              e \in RenameErrors}

\* a fallback transfer that removes the source before it copies
fallback_transfer_remove_first(d, f, source_path, destination_dir) ==
  LET new_unique_destination ==
        get_unique_path(d, f, destination_dir, filename(source_path))
      removed == [p \in DOMAIN f \ {source_path} |-> f[p]]
  IN  IF FileTargetWritable(d, f, new_unique_destination)
      THEN {[status |-> "successful_transfer",
             files |-> MoveFile(f, source_path, new_unique_destination),
             target |-> new_unique_destination, fault |-> 0,
             errc |-> "none"]}
           \cup {[status |-> fallback_failure_status(e), files |-> g,
                  target |-> new_unique_destination, fault |-> 1,
                  errc |-> e] :
                   e \in CopyErrors, g \in {f, removed}}
      ELSE {[status |-> fallback_failure_status("no_such_file_or_directory"),
             files |-> removed,
             target |-> new_unique_destination, fault |-> 0,
             errc |-> "no_such_file_or_directory"]}

\* the possible outcomes of fallback_transfer: the copy fails (leaving
\* nothing or a truncated file), or the copy succeeds and the remove fails,
\* or both succeed
fallback_transfer(d, f, source_path, destination_dir) ==
  LET new_unique_destination ==
        get_unique_path(d, f, destination_dir, filename(source_path))
  IN  IF FileTargetWritable(d, f, new_unique_destination)
      THEN {[status |-> "successful_transfer",
             files |-> MoveFile(f, source_path, new_unique_destination),
             target |-> new_unique_destination, fault |-> 0,
             errc |-> "none"]}
           \cup {[status |-> fallback_failure_status(e), files |-> g,
                  target |-> new_unique_destination, fault |-> 1,
                  errc |-> e] :
                   e \in CopyErrors,
                   g \in {f,
                          TruncatedCopy(f, new_unique_destination),
                          CopyFile(f, source_path, new_unique_destination)}}
      ELSE {[status |-> fallback_failure_status("no_such_file_or_directory"),
             files |-> f,
             target |-> new_unique_destination, fault |-> 0,
             errc |-> "no_such_file_or_directory"]}
           \cup {[status |-> fallback_failure_status("permission_denied"),
                  files |-> f,
                  target |-> new_unique_destination, fault |-> 1,
                  errc |-> "permission_denied"]}

(***************************************************************************)
(* handle_file: the placement decision policy.                             *)
(***************************************************************************)
\* a short-circuit that knows alias folders only
InCorrectLocation_alias_only(parent_folder_name, category_name) ==
  /\ parent_folder_name \in DOMAIN ALIAS_LOOKUP
  /\ ALIAS_LOOKUP[parent_folder_name] = category_name

\* the two short-circuits: the file is in the folder of its category, or in
\* a folder whose name is an alias of its category
InCorrectLocation(parent_folder_name, category_name) ==
  \/ category_name = parent_folder_name
  \/ /\ parent_folder_name \in DOMAIN ALIAS_LOOKUP
     /\ ALIAS_LOOKUP[parent_folder_name] = category_name

\* base_location: one level up out of a canonical or alias folder of another
\* category, the current level otherwise
BaseLocation(current_directory_level_path, category_name) ==
  LET parent_folder_name == get_parent_folder_name(current_directory_level_path)
  IN  IF /\ parent_folder_name \in CANONICAL_NAMES
         /\ category_name # parent_folder_name
      THEN parent_path(current_directory_level_path)
      ELSE IF /\ parent_folder_name \in DOMAIN ALIAS_LOOKUP
              /\ ALIAS_LOOKUP[parent_folder_name] # category_name
           THEN parent_path(current_directory_level_path)
           ELSE current_directory_level_path

\* a combination that reports a failed move as atomic_transfer_failed in
\* either mode
CombineStatus_one_failure_status(t_mode, creation_result, transfer_result) ==
  IF /\ creation_result \in {"successful_creation", "already_exists"}
     /\ transfer_result = "successful_transfer"
  THEN "success"
  ELSE IF \/ creation_result = "permission_denied_failure"
          \/ transfer_result = "permission_denied"
       THEN "permission_denied"
       ELSE IF creation_result = "unknown_failure"
            THEN "directory_creation_failed"
            ELSE "atomic_transfer_failed"

\* a combination that tests the failed creation before the cross-device move
CombineStatus_creation_first(t_mode, creation_result, transfer_result) ==
  IF /\ creation_result \in {"successful_creation", "already_exists"}
     /\ transfer_result = "successful_transfer"
  THEN "success"
  ELSE IF \/ creation_result = "permission_denied_failure"
          \/ transfer_result = "permission_denied"
       THEN "permission_denied"
       ELSE IF creation_result = "unknown_failure"
            THEN "directory_creation_failed"
            ELSE IF t_mode # "atomic_transfer_mode"
                 THEN "fallback_transfer_failed"
                 ELSE IF transfer_result = "cross_device_error"
                      THEN "atomic_transfer_failed"
                      ELSE "unknown_error"

\* the status handle_file returns for a creation outcome and a move outcome
CombineStatus(t_mode, creation_result, transfer_result) ==
  IF t_mode = "atomic_transfer_mode"
  THEN IF /\ creation_result \in {"successful_creation", "already_exists"}
          /\ transfer_result = "successful_transfer"
       THEN "success"
       ELSE IF \/ creation_result = "permission_denied_failure"
               \/ transfer_result = "permission_denied"
            THEN "permission_denied"
            ELSE IF transfer_result = "cross_device_error"
                 THEN "atomic_transfer_failed"
                 ELSE IF creation_result = "unknown_failure"
                      THEN "directory_creation_failed"
                      ELSE "unknown_error"
  ELSE IF /\ creation_result \in {"successful_creation", "already_exists"}
          /\ transfer_result = "successful_transfer"
       THEN "success"
       ELSE IF \/ creation_result = "permission_denied_failure"
               \/ transfer_result = "permission_denied"
            THEN "permission_denied"
            ELSE IF creation_result = "unknown_failure"
                 THEN "directory_creation_failed"
                 ELSE "fallback_transfer_failed"

\* the transfer handle_file delegates to
Transfer(d, f, t_mode, entry_path, destination_dir_path) ==
  IF t_mode = "atomic_transfer_mode"
  THEN atomic_file_transfer(d, f, entry_path, destination_dir_path)
  ELSE fallback_transfer(d, f, entry_path, destination_dir_path)

\* the record of a handle_file call that did nothing
NoMove(d, f, category_name) ==
  [status |-> "already_in_correct_location", dirs |-> d, files |-> f,
   fault |-> 0, category |-> category_name, base |-> <<>>,
   destination |-> <<>>, target |-> <<>>,
   creation |-> "none", move |-> "none", errc |-> "none"]

\* the possible outcomes of handle_file; category_name, parent_folder_name,
\* base_location and destination_directory are its locals, each computed once
handle_file(d, f, current_directory_level_path, entry_path, t_mode) ==
  UNION {UNION {UNION {
      IF InCorrectLocation(parent_folder_name, category_name)
      THEN {NoMove(d, f, category_name)}
      ELSE UNION
             {{[status |-> CombineStatus(t_mode, cr.status, tr.status),
                dirs |-> cr.dirs, files |-> tr.files,
                fault |-> cr.fault + tr.fault, category |-> category_name,
                base |-> base_location, destination |-> destination_directory,
                target |-> tr.target,
                creation |-> cr.status, move |-> tr.status,
                errc |-> tr.errc] :
                 tr \in Transfer(cr.dirs, f, t_mode, entry_path,
                                 destination_directory)} :
                cr \in create_directory(d, f, destination_directory)} :
        destination_directory \in {Append(base_location, category_name)}} :
      base_location \in
        {BaseLocation(current_directory_level_path, category_name)},
      parent_folder_name \in
        {get_parent_folder_name(current_directory_level_path)}} :
    category_name \in {classify_file_by_extension(entry_path)}}

(***************************************************************************)
(* organize_directory as a state machine.                                  *)
(***************************************************************************)
VARIABLES
  dirs,         \* the directories of the filesystem
  files,        \* the regular files of the filesystem and their content
  root,         \* root_path of the runs of this behaviour
  t_mode,       \* t_mode of the current run
  pc,           \* "idle", "loop" (top of the while), "iter" (in the for), "done"
  directories,  \* the manual stack of directories to process
  current,      \* current_directory_level_path
  todo,         \* entries the directory iterator has still to yield
  result,       \* what the last run returned ("running" while in flight)
  validation,   \* what validate_path saw and returned in the current run
  run,          \* number of runs started
  faults,       \* operating-system failures injected so far
  moves,        \* handle_file calls of this run that went past the short-circuits
  dirs0,        \* dirs when the current run started
  files0,       \* files when the current run started
  last,         \* the last handle_file call of this run
  lastNorm,     \* the last normalize_category_folder call of this run: the
                \* level, the filesystem before and after, the folder
                \* remembered per category, the categories whose rename failed
  prev,         \* mode, result, moves and relocated files of the previous
                \* run, faults before this run
  relocated,    \* the files (named by their content) that handle_file calls
                \* of this run moved with status success
  walk,         \* how often each path was pushed on the stack and how often
                \* it was popped in this run
  ui            \* the main window: its widgets, the watched future and what
                \* the shell remembers of the last click

vars == <<dirs, files, root, t_mode, pc, directories, current, todo, result,
          validation, run, faults, moves, dirs0, files0, last, lastNorm, prev,
          relocated, walk, ui>>

organize_status ==
  {"success", "path_not_found", "not_a_directory", "permission_denied",
   "directory_creation_failed", "already_in_correct_location",
   "atomic_transfer_failed", "fallback_transfer_failed", "unknown_error"}

transfer_mode == {"atomic_transfer_mode", "fallback_transfer_mode"}

\* a directory_iterator constructor or increment threw inside
\* organize_directory, where nothing catches it
Uncaught == "uncaught_exception"

NoCall ==
  [status |-> "none", dir |-> <<>>, entry |-> <<>>, category |-> <<>>,
   base |-> <<>>, destination |-> <<>>, target |-> <<>>,
   creation |-> "none", move |-> "none", errc |-> "none", fault |-> 0,
   preDirs |-> {}, preFiles |-> <<>>, postDirs |-> {}, postFiles |-> <<>>]

\* organize_directory called without a main window
\* no push and no pop yet
NoWalk == [pushed |-> <<>>, popped |-> <<>>]

\* one more occurrence of path p in the tally b
Tally(b, p) ==
  [q \in DOMAIN b \cup {p} |->
     (IF q \in DOMAIN b THEN b[q] ELSE 0) + (IF q = p THEN 1 ELSE 0)]

NoWindow == [window |-> "none"]

NoNorm ==
  [dir |-> <<>>, preDirs |-> {}, preFiles |-> <<>>, postDirs |-> {},
   postFiles |-> <<>>, map |-> <<>>, failed |-> {}]

\* organize_directory(root_path, t_mode) up to the first pop: validation,
\* then the stack is seeded with the root
organize_directory(root_path, m, enum) ==
  /\ enum # "ok" => faults < MaxFaults /\ is_directory(dirs, files, root_path)
  /\ LET root_path_state ==
           process_path_validation(dirs, files, root_path, enum)
     IN  /\ validation' =
              [status |-> validate_path(dirs, files, root_path, enum),
               enum |-> IF is_directory(dirs, files, root_path)
                        THEN enum ELSE "none"]
         /\ IF root_path_state # "success"
            THEN /\ pc' = "done"
                 /\ result' = root_path_state
                 /\ directories' = <<>>
                 /\ walk' = NoWalk
            ELSE /\ pc' = "loop"
                 /\ result' = "running"
                 /\ directories' = <<root_path>>
                 /\ walk' = [NoWalk EXCEPT !.pushed = Tally(@, root_path)]
  /\ root' = root_path
  /\ t_mode' = m
  /\ run' = run + 1
  /\ faults' = IF enum = "ok" THEN faults ELSE faults + 1
  /\ prev' = [mode |-> t_mode, result |-> result, moves |-> moves,
              faults |-> faults, relocated |-> relocated]
  /\ moves' = 0
  /\ relocated' = {}
  /\ dirs0' = dirs
  /\ files0' = files
  /\ last' = NoCall
  /\ lastNorm' = NoNorm
  /\ current' = <<>>
  /\ todo' = {}
  /\ UNCHANGED <<dirs, files>>

\* a run of organize_directory on the root of this behaviour is called
Start(m, enum) ==
  /\ pc \in {"idle", "done"}
  /\ run < MaxRuns
  /\ organize_directory(root, m, enum)
  /\ UNCHANGED ui

\* an iterator opened before normalize_category_folder ran
WalkEntries_stale(dBefore, fBefore, dAfter, fAfter, dir) ==
  Entries(dBefore, fBefore, dir)

\* an iterator that also yields the directory itself, as readdir yields "."
WalkEntries_with_dot(dBefore, fBefore, dAfter, fAfter, dir) ==
  Entries(dAfter, fAfter, dir) \cup {dir}

\* what the directory iterator of the for loop yields: the entries of the
\* level as they are once normalize_category_folder has returned
WalkEntries(dBefore, fBefore, dAfter, fAfter, dir) == Entries(dAfter, fAfter, dir)

\* the possible outcomes of one pop: normalize_category_folder, then the
\* construction of the directory iterator of the for loop.  thrown: one of the
\* two directory iterators threw
PopOutcomes(d, f, dir, budget) ==
  IF ~ is_directory(d, f, dir)
  THEN {[dirs |-> d, files |-> f, fault |-> 0, thrown |-> TRUE,
         normalized |-> FALSE, entries |-> {}, map |-> <<>>, failed |-> {}]}
  ELSE LET normalized ==
             {[fs |-> normalize_category_folder(d, f, dir, m, failed, rep),
               fault |-> Cardinality(failed), map |-> m, failed |-> failed] :
                m \in CanonicalFolderMaps(d, f, dir),
                failed \in {s \in SUBSET {AliasCategory(e) :
                                            e \in AliasFolders(d, f, dir)} :
                              Cardinality(s) <= budget},
                rep \in BOOLEAN}
       IN  {[dirs |-> n.fs.dirs, files |-> n.fs.files, fault |-> n.fault,
             thrown |-> FALSE, normalized |-> TRUE,
             entries |-> WalkEntries(d, f, n.fs.dirs, n.fs.files, dir),
             map |-> n.map, failed |-> n.failed] :
              n \in normalized}
           \cup {[dirs |-> n.fs.dirs, files |-> n.fs.files,
                  fault |-> n.fault + 1, thrown |-> TRUE,
                  normalized |-> TRUE, entries |-> {},
                  map |-> n.map, failed |-> n.failed] :
                   n \in {x \in normalized : x.fault + 1 <= budget}}
           \cup (IF budget >= 1
                 THEN {[dirs |-> d, files |-> f, fault |-> 1, thrown |-> TRUE,
                        normalized |-> FALSE, entries |-> {},
                        map |-> <<>>, failed |-> {}]}
                 ELSE {})

\* one turn of the while loop up to the first entry of the for loop
PopAndNormalize ==
  /\ pc = "loop"
  /\ directories # <<>>
  /\ LET dir == directories[Len(directories)]
     IN  \E o \in PopOutcomes(dirs, files, dir, MaxFaults - faults) :
           /\ dirs' = o.dirs
           /\ files' = o.files
           /\ faults' = faults + o.fault
           /\ walk' = [walk EXCEPT !.popped = Tally(@, dir)]
           /\ lastNorm' = IF o.normalized
                          THEN [dir |-> dir, preDirs |-> dirs,
                                preFiles |-> files, postDirs |-> o.dirs,
                                postFiles |-> o.files, map |-> o.map,
                                failed |-> o.failed]
                          ELSE lastNorm
           /\ IF o.thrown
              THEN /\ pc' = "done"
                   /\ result' = Uncaught
                   /\ directories' = <<>>
                   /\ current' = <<>>
                   /\ todo' = {}
              ELSE /\ pc' = IF o.entries = {} THEN "loop" ELSE "iter"
                   /\ result' = result
                   /\ directories' = SubSeq(directories, 1, Len(directories) - 1)
                   /\ current' = IF o.entries = {} THEN <<>> ELSE dir
                   /\ todo' = o.entries
  /\ UNCHANGED <<root, t_mode, validation, run, moves, dirs0, files0, last,
                 prev, relocated, ui>>

\* a walk that descends into every directory
Hidden_never(name) == FALSE

\* is the directory name hidden: empty or starting with '.'
Hidden(name) == name = <<>> \/ name[1] = "."

\* the entries that appear in the level being iterated while the loop runs;
\* it is unspecified whether the iterator yields them
CreatedHere(dBefore, dAfter, dir) ==
  {p \in dAfter \ dBefore : parent_path(p) = dir}

\* a for loop that goes on whatever handle_file returned
Fatal_never(s) == FALSE

\* a for loop that returns every status other than success
Fatal_but_success(s) == s # "success"

\* does the status handle_file returned end the run: anything other than
\* already_in_correct_location (continue) and success
Fatal(s) ==
  /\ s # "already_in_correct_location"
  /\ s # "success"

\* one turn of the for loop
HandleEntry ==
  /\ pc = "iter"
  /\ todo # {}
  /\ \E entry_path \in todo :
       IF is_regular_file(dirs, files, entry_path)
       THEN \E o \in handle_file(dirs, files, current, entry_path, t_mode),
               seen \in BOOLEAN :
              /\ faults + o.fault <= MaxFaults
              /\ seen => CreatedHere(dirs, o.dirs, current) # {}
              /\ dirs' = o.dirs
              /\ files' = o.files
              /\ faults' = faults + o.fault
              /\ moves' = IF o.status = "already_in_correct_location"
                          THEN moves ELSE moves + 1
              /\ relocated' = IF o.status = "success"
                              THEN relocated \cup {files[entry_path]}
                              ELSE relocated
              /\ walk' = walk
              /\ last' = [status |-> o.status, dir |-> current,
                          entry |-> entry_path, category |-> o.category,
                          base |-> o.base, destination |-> o.destination,
                          target |-> o.target, creation |-> o.creation,
                          move |-> o.move, errc |-> o.errc,
                          fault |-> o.fault,
                          preDirs |-> dirs, preFiles |-> files,
                          postDirs |-> o.dirs, postFiles |-> o.files]
              /\ IF Fatal(o.status)
                 THEN /\ pc' = "done"
                      /\ result' = o.status
                      /\ directories' = <<>>
                      /\ current' = <<>>
                      /\ todo' = {}
                 ELSE LET rest == (todo \ {entry_path}) \cup
                                  (IF seen
                                   THEN CreatedHere(dirs, o.dirs, current)
                                   ELSE {})
                      IN  /\ pc' = IF rest = {} THEN "loop" ELSE "iter"
                          /\ result' = result
                          /\ directories' = directories
                          /\ current' = IF rest = {} THEN <<>> ELSE current
                          /\ todo' = rest
       ELSE LET rest == todo \ {entry_path}
            IN  /\ directories' =
                     IF /\ is_directory(dirs, files, entry_path)
                        /\ ~ Hidden(filename(entry_path))
                     THEN Append(directories, entry_path)
                     ELSE directories
                /\ walk' =
                     IF /\ is_directory(dirs, files, entry_path)
                        /\ ~ Hidden(filename(entry_path))
                     THEN [walk EXCEPT !.pushed = Tally(@, entry_path)]
                     ELSE walk
                /\ pc' = IF rest = {} THEN "loop" ELSE "iter"
                /\ current' = IF rest = {} THEN <<>> ELSE current
                /\ todo' = rest
                /\ UNCHANGED <<dirs, files, faults, moves, last, result,
                               relocated>>
  /\ UNCHANGED <<root, t_mode, validation, run, dirs0, files0, lastNorm, prev,
                 ui>>

\* a while loop that does not leave once the stack is empty
Finish_spins ==
  /\ pc = "loop"
  /\ directories = <<>>
  /\ UNCHANGED vars

\* the stack is empty: return success
Finish ==
  /\ pc = "loop"
  /\ directories = <<>>
  /\ pc' = "done"
  /\ result' = "success"
  /\ UNCHANGED <<dirs, files, root, t_mode, directories, current, todo,
                 validation, run, faults, moves, dirs0, files0, last,
                 lastNorm, prev, relocated, walk, ui>>

Next ==
  \/ \E m \in transfer_mode, enum \in EnumOutcomes : Start(m, enum)
  \/ PopAndNormalize
  \/ HandleEntry
  \/ Finish

(***************************************************************************)
(* Starting trees.  A starting tree is a set of at most MaxEntries entries *)
(* drawn from a universe of candidate entries, closed under parents, below *)
(* the directory R; R lies in the top directory <<>>.                      *)
(***************************************************************************)
R == << <<"r">> >>

nImageFiles == <<"I","m","a","g","e"," ","F","i","l","e","s">>
nPdfFiles   == <<"P","D","F"," ","F","i","l","e","s">>
nWordFiles  == <<"W","o","r","d"," ","F","i","l","e","s">>
nPics       == <<"p","i","c","s">>
nPhotos     == <<"p","h","o","t","o","s">>
nPhotosCap  == <<"P","h","o","t","o","s">>
nPdfs       == <<"p","d","f","s">>
nDocs       == <<"d","o","c","s">>
nGit        == <<".","g","i","t">>
nMissing    == <<"m","i","s","s","i","n","g">>
nPhotoJPG   == <<"p","h","o","t","o",".","J","P","G">>
nShotPng    == <<"s","h","o","t",".","p","n","g">>
nNotesPdf   == <<"n","o","t","e","s",".","p","d","f">>
nReportDocx == <<"r","e","p","o","r","t",".","d","o","c","x">>
nShot1Png   == <<"s","h","o","t","(","1",")",".","p","n","g">>
nShot2Png   == <<"s","h","o","t","(","2",")",".","p","n","g">>
nReadme     == <<"R","E","A","D","M","E">>

Dir(p)  == [path |-> p, kind |-> "dir"]
File(p) == [path |-> p, kind |-> "file"]

\* may entry e be added to the tree T
Admissible(T, e) ==
  /\ \A x \in T : x.path # e.path
  /\ \/ parent_path(e.path) = R
     \/ Dir(parent_path(e.path)) \in T

\* the trees of at most n entries over the universe U
RECURSIVE Trees(_, _)
Trees(U, n) ==
  IF n = 0 THEN {{}}
  ELSE LET smaller == Trees(U, n - 1)
       IN  smaller \cup
           UNION {{T \cup {e} : e \in {x \in U : Admissible(T, x)}} :
                    T \in smaller}

\* plain folders, a hidden folder, a file with a category name, collisions
UniverseWalk ==
  {File(R \o <<nPhotoJPG>>), File(R \o <<Others>>), File(R \o <<nReadme>>),
   File(R \o <<nImageFiles>>), Dir(R \o <<nImageFiles>>),
   File(R \o <<nImageFiles, nPhotoJPG>>),
   File(R \o <<nImageFiles, nReportDocx>>),
   Dir(R \o <<nGit>>), File(R \o <<nGit, nPhotoJPG>>),
   Dir(R \o <<nDocs>>), File(R \o <<nDocs, nPhotoJPG>>)}

\* alias folders next to and inside canonical ones
UniverseAlias ==
  {Dir(R \o <<nPics>>), Dir(R \o <<nPhotos>>),
   File(R \o <<nPics, nShotPng>>), File(R \o <<nPics, nNotesPdf>>),
   File(R \o <<nPhotos, nShotPng>>), File(R \o <<nPhotos, nNotesPdf>>),
   Dir(R \o <<nImageFiles>>), Dir(R \o <<nImageFiles, nPics>>),
   File(R \o <<nImageFiles, nReportDocx>>), File(R \o <<nImageFiles>>)}

\* alias folders whose names are written with upper-case letters
UniverseCase ==
  {Dir(R \o <<nPics>>), Dir(R \o <<nPhotosCap>>),
   File(R \o <<nPhotosCap, nShotPng>>), File(R \o <<nPhotosCap, nNotesPdf>>),
   File(R \o <<nPics, nShotPng>>), File(R \o <<nPics, nNotesPdf>>)}

\* name collisions in the destination folder
UniverseCollide ==
  {File(R \o <<nShotPng>>), Dir(R \o <<nImageFiles>>),
   File(R \o <<nImageFiles, nShotPng>>),
   File(R \o <<nImageFiles, nShot1Png>>),
   Dir(R \o <<nImageFiles, nShot1Png>>),
   File(R \o <<nImageFiles, nShot2Png>>),
   Dir(R \o <<nDocs>>), File(R \o <<nDocs, nShotPng>>),
   File(R \o <<nShot1Png>>)}

\* alias folders of two categories, with subfolders, next to canonical names
\* carried by a folder and by a regular file
UniverseNorm ==
  {Dir(R \o <<nPics>>), Dir(R \o <<nPhotos>>), Dir(R \o <<nPdfs>>),
   File(R \o <<nPics, nShotPng>>), Dir(R \o <<nPics, nDocs>>),
   File(R \o <<nPdfs, nNotesPdf>>),
   Dir(R \o <<nImageFiles>>), File(R \o <<nImageFiles, nShotPng>>),
   File(R \o <<nPdfFiles>>)}

\* the state before the first run, on a tree over U; rootsOf gives the root
\* paths a run may be started with
InitOn(U, rootsOf(_)) ==
  \E T \in Trees(U, MaxEntries) :
    /\ dirs = {<<>>, R} \cup {e.path : e \in {x \in T : x.kind = "dir"}}
    /\ files = [p \in {e.path : e \in {x \in T : x.kind = "file"}} |-> p]
    /\ root \in rootsOf(T)
    /\ t_mode = "none"
    /\ pc = "idle"
    /\ directories = <<>>
    /\ current = <<>>
    /\ todo = {}
    /\ result = "none"
    /\ validation = [status |-> "none", enum |-> "none"]
    /\ run = 0
    /\ faults = 0
    /\ moves = 0
    /\ dirs0 = dirs
    /\ files0 = files
    /\ last = NoCall
    /\ lastNorm = NoNorm
    /\ prev = [mode |-> "none", result |-> "none", moves |-> 0, faults |-> 0,
               relocated |-> {}]
    /\ relocated = {}
    /\ walk = NoWalk

OnlyR(T) == {R}

\* R, a path that does not exist, and every entry directly below R
AnyRoot(T) ==
  {R, R \o <<nMissing>>} \cup {e.path : e \in {x \in T : Len(x.path) = 2}}

Init == InitOn(UniverseWalk, AnyRoot) /\ ui = NoWindow

InitAlias == InitOn(UniverseAlias, OnlyR) /\ ui = NoWindow

InitCollide == InitOn(UniverseCollide, OnlyR) /\ ui = NoWindow

InitCase == InitOn(UniverseCase, OnlyR) /\ ui = NoWindow

InitNorm == InitOn(UniverseNorm, OnlyR) /\ ui = NoWindow

Spec == Init /\ [][Next]_vars

SpecAlias == InitAlias /\ [][Next]_vars

SpecCollide == InitCollide /\ [][Next]_vars

SpecCase == InitCase /\ [][Next]_vars

SpecNorm == InitNorm /\ [][Next]_vars

\* a file to move into a folder that exists and is on the stack, a file to
\* eject from it, a plain folder with a file
UniverseLive ==
  {File(R \o <<nPhotoJPG>>), Dir(R \o <<nImageFiles>>),
   File(R \o <<nImageFiles, nReportDocx>>),
   Dir(R \o <<nDocs>>), File(R \o <<nDocs, nPhotoJPG>>)}

InitLive == InitOn(UniverseLive, OnlyR) /\ ui = NoWindow

\* a run is scheduled on a pool thread and is never suspended for ever: each
\* step of the walk that can be taken is taken
SpecLive ==
  /\ InitLive
  /\ [][Next]_vars
  /\ WF_vars(PopAndNormalize)
  /\ WF_vars(HandleEntry)
  /\ WF_vars(Finish)

(***************************************************************************)
(* The pure functions on their own: a specification whose steps apply the  *)
(* classifier, the alias lookup of the normalizer and the status           *)
(* combination of handle_file to one input drawn from bounded sets, and    *)
(* keep the input and the answer in last.                                  *)
(***************************************************************************)
\* ::toupper on one character (C locale)
toupper(c) ==
  CASE c = "a" -> "A" [] c = "b" -> "B" [] c = "c" -> "C" [] c = "d" -> "D"
    [] c = "e" -> "E" [] c = "f" -> "F" [] c = "g" -> "G" [] c = "h" -> "H"
    [] c = "i" -> "I" [] c = "j" -> "J" [] c = "k" -> "K" [] c = "l" -> "L"
    [] c = "m" -> "M" [] c = "n" -> "N" [] c = "o" -> "O" [] c = "p" -> "P"
    [] c = "q" -> "Q" [] c = "r" -> "R" [] c = "s" -> "S" [] c = "t" -> "T"
    [] c = "u" -> "U" [] c = "v" -> "V" [] c = "w" -> "W" [] c = "x" -> "X"
    [] c = "y" -> "Y" [] c = "z" -> "Z" [] OTHER -> c

\* s in upper case
Upper(s) == [i \in 1..Len(s) |-> toupper(s[i])]

\* s with its first character in upper case
Capitalized(s) == [i \in 1..Len(s) |-> IF i = 1 THEN toupper(s[i]) ELSE s[i]]

\* the file name "x." + e
XDot(e) == <<"x", ".">> \o e

\* every extension of the Classification Catalog
CatalogExtensions ==
  UNION {CATEGORY_EXTENSION_MAP[i].extensions : i \in DOMAIN CATEGORY_EXTENSION_MAP}

\* every alias of the Alias Catalog
CatalogAliases ==
  UNION {CATEGORY_ALIAS_MAP[i].aliases : i \in DOMAIN CATEGORY_ALIAS_MAP}

\* names whose extension is not in the catalog, is empty, or is missing
\* (a leading dot starts a name, not an extension)
UncataloguedNames ==
  {<<"x", ".", "z", "z", "z">>, <<"x", ".", "j", "p", "g", "x">>,
   <<"x", ".", "j", "p", "g", ".", "b", "a", "k">>,
   <<"x">>, <<"x", ".">>, <<".", "j", "p", "g">>, <<"j", "p", "g">>, nReadme}

\* the file names the classifier is applied to
ClassifyNames ==
  {XDot(e) : e \in CatalogExtensions}
    \cup {XDot(Upper(e)) : e \in CatalogExtensions}
    \cup {XDot(Capitalized(e)) : e \in CatalogExtensions}
    \cup UncataloguedNames

\* the folder names the alias lookup is applied to
FolderNames ==
  CatalogAliases \cup CANONICAL_NAMES \cup {Others, nDocs, nPhotosCap, nGit}

InitUnits ==
  /\ dirs = {<<>>}
  /\ files = <<>>
  /\ root = R
  /\ t_mode = "none"
  /\ pc = "unit"
  /\ directories = <<>>
  /\ current = <<>>
  /\ todo = {}
  /\ result = "none"
  /\ validation = [status |-> "none", enum |-> "none"]
  /\ run = 0
  /\ faults = 0
  /\ moves = 0
  /\ dirs0 = dirs
  /\ files0 = files
  /\ last = NoCall
  /\ lastNorm = NoNorm
  /\ prev = [mode |-> "none", result |-> "none", moves |-> 0, faults |-> 0,
             relocated |-> {}]
  /\ relocated = {}
  /\ walk = NoWalk
  /\ ui = NoWindow

\* handle_file classifies the file it was given
ClassifyCall(name) ==
  /\ pc = "unit"
  /\ last' = [NoCall EXCEPT !.status = "classified", !.entry = <<name>>,
                            !.category = classify_file_by_extension(<<name>>)]
  /\ pc' = "answered"
  /\ UNCHANGED <<dirs, files, root, t_mode, directories, current, todo,
                 result, validation, run, faults, moves, dirs0, files0,
                 lastNorm, prev, relocated, walk, ui>>

\* the category the scan of normalize_category_folder remembers a folder
\* for: none (<<>>) for a canonical name and for a name that is no alias
ScanCategory(name) ==
  IF name \in CANONICAL_NAMES THEN <<>>
  ELSE IF to_lower(name) \in DOMAIN ALIAS_LOOKUP
       THEN ALIAS_LOOKUP[to_lower(name)]
       ELSE <<>>

\* the scan of normalize_category_folder looks a folder name up
LookupCall(name) ==
  /\ pc = "unit"
  /\ last' = [NoCall EXCEPT !.status = "looked_up", !.entry = <<name>>,
                            !.category = ScanCategory(name)]
  /\ pc' = "answered"
  /\ UNCHANGED <<dirs, files, root, t_mode, directories, current, todo,
                 result, validation, run, faults, moves, dirs0, files0,
                 lastNorm, prev, relocated, walk, ui>>

\* handle_file turns a creation outcome and a move outcome into its status
CombineCall(m, c, t) ==
  /\ pc = "unit"
  /\ t_mode' = m
  /\ last' = [NoCall EXCEPT !.status = CombineStatus(m, c, t),
                            !.creation = c, !.move = t]
  /\ pc' = "answered"
  /\ UNCHANGED <<dirs, files, root, directories, current, todo, result,
                 validation, run, faults, moves, dirs0, files0, lastNorm, prev,
                 relocated, walk, ui>>

\* the paths taken in the folder R once k files called name were moved into
\* it one after the other, each to the path get_unique_path chose for it
RECURSIVE Taken(_, _)
Taken(name, k) ==
  IF k = 0 THEN {}
  ELSE LET before == Taken(name, k - 1)
       IN  before \cup
             {get_unique_path({<<>>, R}, [p \in before |-> p], R, name)}

\* a transfer asks get_unique_path for a path in a folder that holds k files
\* of that name already; the next run classifies the file at that path
UniquePathCall(name, k) ==
  /\ pc = "unit"
  /\ LET taken == Taken(name, k)
         new_unique_destination ==
           get_unique_path({<<>>, R}, [p \in taken |-> p], R, name)
     IN  last' = [NoCall EXCEPT
                    !.status = "renamed", !.entry = <<name>>,
                    !.destination = R,
                    !.target = new_unique_destination,
                    !.category =
                      classify_file_by_extension(new_unique_destination),
                    !.preFiles = [p \in taken |-> p]]
  /\ pc' = "answered"
  /\ UNCHANGED <<dirs, files, root, t_mode, directories, current, todo,
                 result, validation, run, faults, moves, dirs0, files0,
                 lastNorm, prev, relocated, walk, ui>>

NextUnits ==
  \/ \E name \in ClassifyNames, k \in 1..MaxCollisions :
       UniquePathCall(name, k)
  \/ \E name \in ClassifyNames : ClassifyCall(name)
  \/ \E name \in FolderNames : LookupCall(name)
  \/ \E m \in transfer_mode, c \in create_directory_status,
        t \in file_move_status : CombineCall(m, c, t)

SpecUnits == InitUnits /\ [][NextUnits]_vars

(***************************************************************************)
(* The main window.  ui holds the widgets the handlers read and write      *)
(* (path_field, organize_button, progress_bar, result_field), the member   *)
(* current_mode, whether result_watcher watches a future whose finished    *)
(* signal has not been handled yet, and a log of the last click: the root  *)
(* its first run was started with, the runs and retry questions since the  *)
(* click, whether the present run is a retry, runs started while another   *)
(* run was in flight, the status handled last.  A slot runs to its end,    *)
(* its modal dialogs included, before the next event is handled; the steps *)
(* of the background run interleave with the events of the user.           *)
(***************************************************************************)
\* the text of an empty QLineEdit; the top directory is never typed
EmptyText == <<>>

\* the state the constructor of MainWindow leaves
MainWindow ==
  [window |-> "open", path_field |-> EmptyText, organize_button |-> TRUE,
   progress_bar |-> FALSE, result_field |-> "", current_mode |-> "none",
   watching |-> FALSE, clicks |-> 0, click_root |-> EmptyText,
   click_runs |-> 0, questions |-> 0, retry |-> FALSE, overlapped |-> 0,
   handled |-> "none"]

\* the variables of organize_directory and of the filesystem
engine ==
  <<dirs, files, root, t_mode, pc, directories, current, todo, result,
    validation, run, faults, moves, dirs0, files0, last, lastNorm, prev,
    relocated, walk>>

\* is a background run of organize_directory in flight
Running == pc \in {"loop", "iter"}

\* QtConcurrent::run(organize_directory, root_path, m): the run starts on a
\* pool thread; a run started while another one is in flight is counted
\* and not followed
QtConcurrent_run(root_path, m, enum) ==
  IF Running
  THEN enum = "ok" /\ UNCHANGED engine
  ELSE organize_directory(root_path, m, enum)

\* a click handler that leaves the organize button enabled
on_organize_button_clicked_enabled(enum) ==
  /\ ui.window = "open"
  /\ ui.organize_button
  /\ ui.clicks < MaxClicks
  /\ IF ui.path_field = EmptyText
     THEN /\ enum = "ok"
          /\ ui' = [ui EXCEPT !.current_mode = "atomic_transfer_mode"]
          /\ UNCHANGED engine
     ELSE /\ QtConcurrent_run(ui.path_field, "atomic_transfer_mode", enum)
          /\ ui' = [ui EXCEPT
                      !.current_mode = "atomic_transfer_mode",
                      !.progress_bar = TRUE,
                      !.result_field = "Organizing...",
                      !.watching = TRUE,
                      !.clicks = @ + 1,
                      !.click_root = ui.path_field,
                      !.click_runs = 1,
                      !.questions = 0,
                      !.retry = FALSE,
                      !.overlapped = IF Running THEN @ + 1 ELSE @]

\* the user clicks the organize button; a disabled button emits no click
on_organize_button_clicked(enum) ==
  /\ ui.window = "open"
  /\ ui.organize_button
  /\ ui.clicks < MaxClicks
  /\ IF ui.path_field = EmptyText
     THEN /\ enum = "ok"
          /\ ui' = [ui EXCEPT !.current_mode = "atomic_transfer_mode"]
          /\ UNCHANGED engine
     ELSE /\ QtConcurrent_run(ui.path_field, "atomic_transfer_mode", enum)
          /\ ui' = [ui EXCEPT
                      !.current_mode = "atomic_transfer_mode",
                      !.organize_button = FALSE,
                      !.progress_bar = TRUE,
                      !.result_field = "Organizing...",
                      !.watching = TRUE,
                      !.clicks = @ + 1,
                      !.click_root = ui.path_field,
                      !.click_runs = 1,
                      !.questions = 0,
                      !.retry = FALSE,
                      !.overlapped = IF Running THEN @ + 1 ELSE @]

\* the text each case of the switch leaves in result_field
ResultText(s, reply) ==
  CASE s = "success" -> "Files are organized successfully"
    [] s = "path_not_found" -> "Error, Invalid path."
    [] s = "not_a_directory" -> "Error, Not a Direcotry."
    [] s = "permission_denied" -> "Error! Permission Denied."
    [] s = "directory_creation_failed" -> "Error! Directory creation failed."
    [] s = "atomic_transfer_failed" ->
         IF reply = "Yes" THEN "Error! File transfer failed."
         ELSE "Error! Unable to transfer files."
    [] s = "fallback_transfer_failed" -> "Error! Unable to perform operation."
    [] s = "unknown_error" -> "Unknown error occured!"
    [] OTHER -> ui.result_field

\* what the user answers to the dialog of a result
Replies(s) ==
  IF s = "atomic_transfer_failed" THEN {"Yes", "No"} ELSE {"Ok"}

\* the finished signal of result_watcher is handled.  An exception that left
\* organize_directory is rethrown by result_watcher.result() inside the slot
\* and ends the application
on_organization_finished(reply, enum) ==
  /\ ui.window = "open"
  /\ ui.watching
  /\ pc = "done"
  /\ reply \in Replies(result)
  /\ IF result = Uncaught
     THEN /\ enum = "ok"
          /\ ui' = [ui EXCEPT !.window = "terminated"]
          /\ UNCHANGED engine
     ELSE IF result = "atomic_transfer_failed" /\ reply = "Yes"
          THEN IF ui.path_field = EmptyText
               THEN /\ enum = "ok"
                    /\ ui' = [ui EXCEPT
                                !.result_field = ResultText(result, reply),
                                !.questions = @ + 1,
                                !.watching = FALSE,
                                !.handled = result]
                    /\ UNCHANGED engine
               ELSE /\ QtConcurrent_run(ui.path_field,
                                        "fallback_transfer_mode", enum)
                    /\ ui' = [ui EXCEPT
                                !.result_field = ResultText(result, reply),
                                !.questions = @ + 1,
                                !.click_runs = @ + 1,
                                !.retry = TRUE,
                                !.handled = result]
          ELSE /\ enum = "ok"
               /\ ui' = [ui EXCEPT
                           !.result_field = ResultText(result, reply),
                           !.questions =
                             IF result = "atomic_transfer_failed"
                             THEN @ + 1 ELSE @,
                           !.organize_button = TRUE,
                           !.progress_bar = FALSE,
                           !.watching = FALSE,
                           !.handled = result]
               /\ UNCHANGED engine

\* the user picks a directory in the dialog of the browse button, or cancels
on_browse_button_clicked(directory_path) ==
  /\ ui.window = "open"
  /\ directory_path # EmptyText => is_directory(dirs, files, directory_path)
  /\ ui' = IF directory_path # EmptyText
           THEN [ui EXCEPT !.path_field = directory_path]
           ELSE ui
  /\ UNCHANGED engine

\* the user clicks the clear button
on_clear_button_clicked ==
  /\ ui.window = "open"
  /\ ui' = [ui EXCEPT !.path_field = EmptyText]
  /\ UNCHANGED engine

\* the user types a path into the path field
path_field_edited(text) ==
  /\ ui.window = "open"
  /\ ui' = [ui EXCEPT !.path_field = text]
  /\ UNCHANGED engine

\* the paths the user types or picks
ShellPaths == {R, R \o <<nDocs>>, R \o <<nMissing>>}

\* files of two categories, one of them blocked by a regular file that
\* carries the name of its category folder, and a folder to organize instead
UniverseShell ==
  {File(R \o <<nPhotoJPG>>), File(R \o <<nReadme>>),
   File(R \o <<nImageFiles>>),
   Dir(R \o <<nDocs>>), File(R \o <<nDocs, nPhotoJPG>>)}

InitShell == InitOn(UniverseShell, OnlyR) /\ ui = MainWindow

NextShell ==
  \/ \E enum \in EnumOutcomes : on_organize_button_clicked(enum)
  \/ \E reply \in {"Yes", "No", "Ok"}, enum \in EnumOutcomes :
       on_organization_finished(reply, enum)
  \/ \E directory_path \in ShellPaths \cup {EmptyText} :
       on_browse_button_clicked(directory_path)
  \/ on_clear_button_clicked
  \/ \E text \in ShellPaths : path_field_edited(text)
  \/ PopAndNormalize
  \/ HandleEntry
  \/ Finish

SpecShell == InitShell /\ [][NextShell]_vars

(***************************************************************************)
(* Properties.                                                             *)
(***************************************************************************)
\* number of regular files of f that hold content c
Holding(f, c) == Cardinality({p \in DOMAIN f : f[p] = c})

\* the files other than the moved one are where they were, as they were
OthersUntouched(call) ==
  \A p \in DOMAIN call.preFiles \ {call.entry} :
    p \in DOMAIN call.postFiles /\ call.postFiles[p] = call.preFiles[p]

\* C1: in every state of a run, whatever its mode and however it ends, each
\* content held by a regular file when the run started is still held by at
\* least as many regular files, and the last handle_file call left every file
\* other than the one it moved at its path with its content.
C1_NoFileLostOrOverwritten ==
  /\ \A p \in DOMAIN files0 :
       Holding(files, files0[p]) >= Holding(files0, files0[p])
  /\ last.status # "none" => OthersUntouched(last)

\* a file was moved into a folder that already held a file of its name
C1_Witness ==
  /\ last.status = "success"
  /\ Append(last.destination, filename(last.entry)) \in DOMAIN last.preFiles
  /\ last.target \in DOMAIN files

\* the name get_unique_path builds for counter k
Numbered(fname, k) ==
  stem(fname) \o <<"(">> \o to_string(k) \o <<")">> \o extension(fname)

\* C4: the path get_unique_path returned to the last transfer named no
\* existing entry; it is dir/filename when that was free, otherwise
\* dir/stem(k)ext for the smallest k >= 1 that was free; and a successful move
\* to it left every other file untouched.
C4_UniqueDestination ==
  last.move # "none" =>
    LET dir      == last.destination
        fname    == filename(last.entry)
        taken(p) == p \in last.preDirs \/ p \in DOMAIN last.preFiles
        most     == Cardinality(last.preDirs) + Cardinality(DOMAIN last.preFiles)
    IN  /\ ~ taken(last.target)
        /\ IF ~ taken(Append(dir, fname))
           THEN last.target = Append(dir, fname)
           ELSE \E k \in 1..(most + 1) :
                  /\ last.target = Append(dir, Numbered(fname, k))
                  /\ \A j \in 1..(k - 1) : taken(Append(dir, Numbered(fname, j)))
        /\ last.status = "success" =>
             /\ OthersUntouched(last)
             /\ last.target \in DOMAIN last.postFiles
             /\ last.postFiles[last.target] = last.preFiles[last.entry]

\* a move that had to skip both the plain name and stem(1)ext
C4_Witness ==
  /\ last.status = "success"
  /\ last.target = Append(last.destination, Numbered(filename(last.entry), 2))

\* C9: a root that does not exist gives path_not_found, a root that is not a
\* directory gives not_a_directory, and whenever validation is not ok the run
\* is over with the filesystem as it was and with no normalizer or handle_file
\* call made; after an ok validation nothing has changed before the first pop.
C9_ValidationBeforeMutation ==
  run >= 1 =>
    /\ ~ exists(dirs0, files0, root) =>
         pc = "done" /\ result = "path_not_found"
    /\ exists(dirs0, files0, root) /\ ~ is_directory(dirs0, files0, root) =>
         pc = "done" /\ result = "not_a_directory"
    /\ validation.status # "ok" =>
         /\ pc = "done"
         /\ result \in {"path_not_found", "not_a_directory",
                        "permission_denied", "unknown_error"}
         /\ dirs = dirs0 /\ files = files0
         /\ last = NoCall /\ lastNorm = NoNorm
    /\ (pc = "loop" /\ directories = <<root>> /\ lastNorm = NoNorm) =>
         dirs = dirs0 /\ files = files0

\* a second run on a missing root, after nothing was changed by the first
C9_Witness ==
  /\ pc = "done"
  /\ run = 2
  /\ result = "path_not_found"
  /\ files # <<>>

\* C2 as stated: a run on a directory, with no filesystem operation failing,
\* returns success, and when it is the second run in the same mode every file
\* it handles resolves to already_in_correct_location.
C2_TwiceSucceedsTwice ==
  (pc = "done" /\ validation.status = "ok" /\ faults = 0) =>
    /\ result = "success"
    /\ (run >= 2 /\ prev.mode = t_mode) => moves = 0

\* C2 amended: when a run returned success, the next run in the same mode, if
\* no filesystem operation fails during it, moves nothing (every handle_file
\* call resolves to already_in_correct_location) and returns success.
C2_SecondRunMovesNothing ==
  (run >= 2 /\ prev.mode = t_mode /\ prev.result = "success"
     /\ faults = prev.faults) =>
    /\ moves = 0
    /\ last.status \in {"none", "already_in_correct_location"}
    /\ files = files0
    /\ pc = "done" => result = "success"

\* a second successful run that found in place the files the first run moved
C2_Witness ==
  /\ pc = "done" /\ run = 2 /\ result = "success"
  /\ prev.mode = t_mode /\ prev.result = "success" /\ prev.moves > 0
  /\ faults = prev.faults
  /\ last.status = "already_in_correct_location"

\* C3: after a run, also one in which no filesystem operation failed, no
\* directory with a canonical category name holds a subdirectory with a
\* canonical category name.
C3_NoNestedCategoryFolders ==
  (pc = "done" /\ faults = 0) =>
    \A p \in dirs :
      (Len(p) >= 2 /\ filename(p) \in CANONICAL_NAMES) =>
        filename(parent_path(p)) \notin CANONICAL_NAMES

\* the folder names the Alias Catalog matches: not canonical, and an alias
\* once lower-cased
IsAliasName(n) == n \notin CANONICAL_NAMES /\ to_lower(n) \in DOMAIN ALIAS_LOOKUP

AliasOf(n) == ALIAS_LOOKUP[to_lower(n)]

\* C5: when no filesystem operation fails, a file of category C handled in a
\* directory D whose name is a canonical category K # C, or an alias of a
\* category K # C, is not left in place; its destination directory is
\* parent(D)/C and the move puts it there; root/Image Files/report.docx ends at
\* root/Word Files/report.docx.
C5_EjectedOneLevelUp ==
  /\ (last.status # "none" /\ faults = 0) =>
       LET n == filename(last.dir)
           C == last.category
           up == Append(parent_path(last.dir), C)
       IN  ((n \in CANONICAL_NAMES /\ n # C) \/ (IsAliasName(n) /\ AliasOf(n) # C))
           => /\ last.status # "already_in_correct_location"
              /\ last.destination = up
              /\ last.status = "success" =>
                   /\ parent_path(last.target) = up
                   /\ last.target \in DOMAIN last.postFiles
  /\ (pc = "done" /\ run = 1 /\ result = "success" /\ root = R
        /\ R \o <<nImageFiles, nReportDocx>> \in DOMAIN files0) =>
       /\ R \o <<nWordFiles, nReportDocx>> \in DOMAIN files
       /\ R \o <<nImageFiles, nWordFiles, nReportDocx>> \notin DOMAIN files

\* C6: when a level holds two alias folders of one category and no entry with
\* the canonical name, and nothing fails, normalization leaves exactly one of
\* them under the canonical name and the other under its own name; a file
\* handled in a folder with an alias name stays when its category is the
\* category of the alias and goes to parent/category otherwise.
C6_AliasConvergence ==
  /\ (lastNorm.dir # <<>> /\ faults = 0) =>
       \A c \in {AliasCategory(e) :
                   e \in AliasFolders(lastNorm.preDirs, lastNorm.preFiles,
                                      lastNorm.dir)} :
         LET al == {e \in AliasFolders(lastNorm.preDirs, lastNorm.preFiles,
                                       lastNorm.dir) : AliasCategory(e) = c}
             canon == Append(lastNorm.dir, c)
         IN  (Cardinality(al) = 2
                /\ ~ exists(lastNorm.preDirs, lastNorm.preFiles, canon)) =>
               /\ canon \in lastNorm.postDirs
               /\ Cardinality(al \cap lastNorm.postDirs) = 1
  /\ (last.status # "none" /\ faults = 0 /\ IsAliasName(filename(last.dir))) =>
       IF last.category = AliasOf(filename(last.dir))
       THEN last.status = "already_in_correct_location"
       ELSE /\ last.status # "already_in_correct_location"
            /\ last.destination = Append(parent_path(last.dir), last.category)

\* D is a plain folder: its name is no canonical name and no alias
Plain(dir) ==
  /\ filename(dir) \notin CANONICAL_NAMES
  /\ ~ IsAliasName(filename(dir))

\* a regular file sits where the category folder of the call would be
Blocked(call) ==
  Append(call.dir, call.category) \in DOMAIN call.preFiles

\* the call moved its file into dir/category, under its own name when free
MovedIntoCategoryFolder(call) ==
  LET dest  == Append(call.dir, call.category)
      plain == Append(dest, filename(call.entry))
  IN  /\ call.category =
           classify_file_by_extension(<<to_lower(filename(call.entry))>>)
      /\ call.status = "success"
      /\ call.destination = dest
      /\ dest \in call.postDirs
      /\ call.entry \notin DOMAIN call.postFiles
      /\ call.target \in DOMAIN call.postFiles
      /\ call.postFiles[call.target] = call.preFiles[call.entry]
      /\ parent_path(call.target) = dest
      /\ ~ exists(call.preDirs, call.preFiles, plain) => call.target = plain

\* C7 as stated, for the files the walk handles when no operation fails and
\* no regular file is in the way: a file handled in a plain folder D is moved
\* to D/category, and the run returns success.
C7_PlainFolderFileMoved ==
  /\ (last.status # "none" /\ Plain(last.dir) /\ last.fault = 0
        /\ ~ Blocked(last)) =>
       MovedIntoCategoryFolder(last)
  /\ (pc = "done" /\ validation.status = "ok" /\ faults = prev.faults
        /\ result # "success") =>
       last.status = result /\ last.destination \in DOMAIN last.preFiles

\* C7 amended: the same, for a plain folder D whose name is not the category
\* of the file (a file of category Others in a folder named Others stays).
C7_PlainFolderPlacement ==
  /\ (last.status # "none" /\ Plain(last.dir) /\ last.fault = 0
        /\ ~ Blocked(last) /\ last.category # filename(last.dir)) =>
       MovedIntoCategoryFolder(last)
  /\ (pc = "done" /\ validation.status = "ok" /\ faults = prev.faults
        /\ result # "success") =>
       last.status = result /\ last.destination \in DOMAIN last.preFiles

\* Scenario A: photo.JPG went from the root to root/Image Files/photo.JPG
C7_Witness ==
  /\ pc = "done" /\ result = "success" /\ run = 1 /\ root = R
  /\ last.entry = R \o <<nPhotoJPG>>
  /\ last.status = "success"
  /\ R \o <<nImageFiles, nPhotoJPG>> \in DOMAIN files
  /\ R \o <<nPhotoJPG>> \notin DOMAIN files

\* the starting tree of Scenario B: root/pics with shot.png and notes.pdf
ScenarioB ==
  /\ root = R
  /\ dirs0 = {<<>>, R, R \o <<nPics>>}
  /\ DOMAIN files0 = {R \o <<nPics, nShotPng>>, R \o <<nPics, nNotesPdf>>}

\* C8: the entries the for loop has still to yield, and the directories on
\* the stack, exist under the names they were enumerated with, that is the
\* names the normalizer of their level left; on Scenario B, when nothing
\* fails, pics has become Image Files, shot.png has not been moved and
\* notes.pdf is at root/PDF Files/notes.pdf.
C8_NormalizedBeforeEnumerated ==
  /\ \A e \in todo : exists(dirs, files, e)
  /\ \A i \in 1..Len(directories) : is_directory(dirs, files, directories[i])
  /\ (pc = "done" /\ run = 1 /\ faults = 0 /\ ScenarioB) =>
       /\ result = "success"
       /\ R \o <<nImageFiles>> \in dirs
       /\ R \o <<nPics>> \notin dirs
       /\ DOMAIN files = {R \o <<nImageFiles, nShotPng>>,
                          R \o <<nPdfFiles, nNotesPdf>>}
       /\ files[R \o <<nImageFiles, nShotPng>>] = R \o <<nPics, nShotPng>>
       /\ files[R \o <<nPdfFiles, nNotesPdf>>] = R \o <<nPics, nNotesPdf>>
       /\ moves = 1

\* Scenario B has run to its end
C8_Witness ==
  /\ pc = "done" /\ run = 1 /\ faults = 0 /\ ScenarioB
  /\ R \o <<nPdfFiles, nNotesPdf>> \in DOMAIN files

\* C10: validate_path on an existing directory returns permission_denied when
\* the enumeration fails with an access-control error, unknown_path_error
\* when it fails for another reason, and ok only when it succeeded.
C10_EnumerationFailureReported ==
  validation.enum # "none" =>
    /\ validation.enum = "permission_denied" =>
         validation.status = "permission_denied"
    /\ validation.enum = "other_error" =>
         validation.status = "unknown_path_error"
    /\ validation.status = "ok" => validation.enum = "ok"

\* the statuses organize_directory may hand to its caller
TopLevelStatuses ==
  {"success", "path_not_found", "not_a_directory", "permission_denied",
   "directory_creation_failed", "atomic_transfer_failed",
   "fallback_transfer_failed", "unknown_error"}

\* C11: organize never returns already_in_correct_location: whenever a run
\* has returned a value, for every root, mode and tree, the value is one of
\* success, path_not_found, not_a_directory, permission_denied,
\* directory_creation_failed, atomic_transfer_failed, fallback_transfer_failed
\* and unknown_error.
C11_NeverReturnsAlreadyInPlace ==
  /\ result # "already_in_correct_location"
  /\ (pc = "done" /\ result # Uncaught) => result \in TopLevelStatuses

\* a run returned success after handle_file answered
\* already_in_correct_location for the last file it met
C11_Witness ==
  /\ pc = "done"
  /\ result = "success"
  /\ last.status = "already_in_correct_location"

\* C12: every run of organize ends by returning an organize_status value to
\* its caller; no failure leaves organize_directory as an exception.
C12_EveryFailureReturned ==
  pc = "done" => result \in organize_status

\* the statuses of handle_file on which the walk goes on
GoesOn == {"success", "already_in_correct_location"}

\* C14: once handle_file has returned a status other than success and
\* already_in_correct_location, the run is over with exactly that status, no
\* entry and no directory is left to be handled, the filesystem is as the
\* failing call left it, and that call touched no file but its own: what was
\* relocated earlier stays relocated.
C14_FirstFatalStatusAborts ==
  (last.status # "none" /\ last.status \notin GoesOn) =>
    /\ pc = "done"
    /\ result = last.status
    /\ directories = <<>>
    /\ todo = {}
    /\ dirs = last.postDirs
    /\ files = last.postFiles
    /\ \A p \in DOMAIN last.preFiles \ {last.entry} :
         p \in DOMAIN files /\ files[p] = last.preFiles[p]

\* a run aborted by its second move, with the file of the first move still at
\* its new place
C14_Witness ==
  /\ pc = "done"
  /\ last.status \notin GoesOn \cup {"none"}
  /\ moves >= 2
  /\ \E p \in DOMAIN files :
       /\ p \notin DOMAIN files0
       /\ files[p] \in DOMAIN files0
       /\ files[p] # last.entry

\* the status the stated precedence gives to a creation outcome and a move
\* outcome
StatedStatus(m, c, t) ==
  IF c \in {"successful_creation", "already_exists"} /\ t = "successful_transfer"
  THEN "success"
  ELSE IF c = "permission_denied_failure" \/ t = "permission_denied"
       THEN "permission_denied"
       ELSE IF m = "atomic_transfer_mode" /\ t = "cross_device_error"
            THEN "atomic_transfer_failed"
            ELSE IF c = "unknown_failure"
                 THEN "directory_creation_failed"
                 ELSE IF m = "fallback_transfer_mode"
                      THEN "fallback_transfer_failed"
                      ELSE "unknown_error"

\* C13: for every mode, creation outcome and move outcome, handle_file
\* answers success iff the creation is created-or-already-exists and the move
\* succeeded, else permission_denied if either signalled a permission
\* failure, else atomic_transfer_failed if the atomic move reported
\* cross-device, else directory_creation_failed if the creation failed for
\* another reason, else fallback_transfer_failed in fallback mode and
\* unknown_error in atomic mode; every pair gets an organize status.
C13_StatusPrecedence ==
  (pc = "answered" /\ last.creation # "none") =>
    /\ last.status = StatedStatus(t_mode, last.creation, last.move)
    /\ last.status \in organize_status
    /\ last.status = "success" <=>
         /\ last.creation \in {"successful_creation", "already_exists"}
         /\ last.move = "successful_transfer"

\* a failed creation together with a cross-device move in atomic mode: the
\* cross-device answer goes first
C13_Witness ==
  /\ pc = "answered"
  /\ t_mode = "atomic_transfer_mode"
  /\ last.creation = "unknown_failure"
  /\ last.move = "cross_device_error"
  /\ last.status = "atomic_transfer_failed"

\* the catalog entries that list the extension e
OwnersOf(e) ==
  {i \in DOMAIN CATEGORY_EXTENSION_MAP : e \in CATEGORY_EXTENSION_MAP[i].extensions}

\* C15: every extension of the Classification Catalog is listed by exactly
\* one category; classify("x." + e) is that category, also when e is written
\* in upper case or capitalized; a name whose extension is not in the
\* catalog, is empty or is missing classifies as Others; every answer is a
\* category of the catalog or Others.
C15_ClassifyMatchesCatalog ==
  /\ \A e \in CatalogExtensions : Cardinality(OwnersOf(e)) = 1
  /\ (pc = "answered" /\ last.status = "classified") =>
       LET name == last.entry[1]
       IN  /\ last.category \in CANONICAL_NAMES \cup {Others}
           /\ \A e \in CatalogExtensions :
                name \in {XDot(e), XDot(Upper(e)), XDot(Capitalized(e))} =>
                  \A i \in OwnersOf(e) :
                    last.category = CATEGORY_EXTENSION_MAP[i].name
           /\ name \in UncataloguedNames => last.category = Others

\* x.Jpg was classified as Image Files
C15_Witness ==
  /\ pc = "answered"
  /\ last.status = "classified"
  /\ last.entry = <<XDot(<<"J", "p", "g">>)>>
  /\ last.category = nImageFiles

\* the catalog entries that list the alias a
AliasOwnersOf(a) ==
  {i \in DOMAIN CATEGORY_ALIAS_MAP : a \in CATEGORY_ALIAS_MAP[i].aliases}

\* C16: every alias of the Alias Catalog is listed by exactly one category,
\* so that the category a lookup of the alias answers is the same whichever
\* listing is inserted last.
C16_AliasOwnedByOneCategory ==
  (pc = "answered" /\ last.status = "looked_up"
     /\ last.entry[1] \in CatalogAliases) =>
    /\ Cardinality(AliasOwnersOf(last.entry[1])) = 1
    /\ \A i \in AliasOwnersOf(last.entry[1]) :
         last.category = CATEGORY_ALIAS_MAP[i].name

\* C17: the canonical names are the keys of the Classification Catalog; every
\* category of the Alias Catalog is one of them; no alias is a canonical
\* name; Others is neither a canonical name nor an alias; a lookup of an
\* alias answers a canonical name, a lookup of Others answers nothing.
C17_CanonicalNamesAndAliases ==
  /\ CANONICAL_NAMES =
       {CATEGORY_EXTENSION_MAP[i].name : i \in DOMAIN CATEGORY_EXTENSION_MAP}
  /\ \A i \in DOMAIN CATEGORY_ALIAS_MAP :
       CATEGORY_ALIAS_MAP[i].name \in CANONICAL_NAMES
  /\ \A a \in CatalogAliases : ALIAS_LOOKUP[a] \in CANONICAL_NAMES
  /\ CANONICAL_NAMES \cap CatalogAliases = {}
  /\ Others \notin CANONICAL_NAMES
  /\ Others \notin CatalogAliases
  /\ (pc = "answered" /\ last.status = "looked_up") =>
       /\ last.entry[1] \in CatalogAliases => last.category \in CANONICAL_NAMES
       /\ last.entry[1] \in CANONICAL_NAMES \cup {Others} => last.category = <<>>

\* the alias pics was looked up and answered Image Files
C17_Witness ==
  /\ pc = "answered"
  /\ last.status = "looked_up"
  /\ last.entry = <<nPics>>
  /\ last.category = nImageFiles
  /\ nImageFiles \in CANONICAL_NAMES

\* the canonical path the normalizer call n tries to give the folder it
\* remembered for category c
CanonicalPath(n, c) == Append(n.dir, c)

\* the rename for category c in the call n could not succeed: the operating
\* system refused it, or a regular file or a non-empty folder has the name
RenameFailed(n, c) ==
  \/ c \in n.failed
  \/ CanonicalPath(n, c) \in DOMAIN n.preFiles
  \/ /\ CanonicalPath(n, c) \in n.preDirs
     /\ Entries(n.preDirs, n.preFiles, CanonicalPath(n, c)) # {}

\* C18: in every normalizer call, a remembered folder whose rename fails
\* keeps its alias name and its content, the remembered folders of the other
\* categories are renamed all the same when their canonical name is free,
\* and when failed renames are all that went wrong in the call the run is
\* still running, on the entries of that level, with no status set.
C18_RenameFailureAbsorbed ==
  [][ (lastNorm' # lastNorm /\ lastNorm'.dir # <<>>) =>
        LET n == lastNorm'
        IN  /\ \A c \in DOMAIN n.map :
                 /\ RenameFailed(n, c) =>
                      /\ n.map[c] \in n.postDirs
                      /\ \A p \in DOMAIN n.preFiles :
                           Below(n.map[c], p) =>
                             p \in DOMAIN n.postFiles
                               /\ n.postFiles[p] = n.preFiles[p]
                 /\ (c \notin n.failed
                       /\ ~ exists(n.preDirs, n.preFiles, CanonicalPath(n, c))) =>
                      /\ n.map[c] \notin n.postDirs
                      /\ CanonicalPath(n, c) \in n.postDirs
            /\ ((\E c \in DOMAIN n.map : RenameFailed(n, c))
                  /\ faults' = faults + Cardinality(n.failed)) =>
                 /\ pc' \in {"loop", "iter"}
                 /\ result' = "running"
                 /\ dirs' = n.postDirs /\ files' = n.postFiles
                 /\ todo' = Entries(dirs', files', n.dir)
                 /\ last' = last
    ]_vars

\* a run returned success although the rename of pics had been refused: pics
\* kept its name, and pdfs was renamed in the same pass
C18_Witness ==
  /\ pc = "done" /\ result = "success" /\ run = 1 /\ faults = 1
  /\ R \o <<nPics>> \in dirs0 /\ R \o <<nPdfs>> \in dirs0
  /\ R \o <<nPics>> \in dirs
  /\ R \o <<nImageFiles>> \notin dirs
  /\ R \o <<nPdfFiles>> \in dirs
  /\ R \o <<nPdfs>> \notin dirs

\* the immediate subfolders of the level that the normalizer call n renamed
Renamed(n) ==
  {e \in Entries(n.preDirs, n.preFiles, n.dir) :
     e \in n.preDirs /\ e \notin n.postDirs}

\* where the normalizer call n took the path p
Carried(n, p) ==
  IF \E e \in Renamed(n) : p = e \/ Below(e, p)
  THEN LET e == CHOOSE x \in Renamed(n) : p = x \/ Below(x, p)
       IN  Rebase(e, Append(n.dir, ALIAS_LOOKUP[to_lower(filename(e))]), p)
  ELSE p

\* C19: a normalizer call on the level D changes the filesystem by renaming
\* immediate subfolders of D and nothing else: every folder and every file is
\* where it was, or where the rename of the immediate subfolder of D above it
\* took it, with its content; no folder is new, no file is lost; no renamed
\* folder had a canonical name; no two renamed folders are of one category.
C19_NormalizerOnlyRenamesChildren ==
  lastNorm.dir # <<>> =>
    LET n == lastNorm
    IN  /\ \A e \in Renamed(n) :
             /\ parent_path(e) = n.dir
             /\ filename(e) \notin CANONICAL_NAMES
             /\ to_lower(filename(e)) \in DOMAIN ALIAS_LOOKUP
        /\ \A e1, e2 \in Renamed(n) :
             ALIAS_LOOKUP[to_lower(filename(e1))] =
               ALIAS_LOOKUP[to_lower(filename(e2))] => e1 = e2
        /\ n.postDirs = {Carried(n, p) : p \in n.preDirs}
        /\ DOMAIN n.postFiles = {Carried(n, p) : p \in DOMAIN n.preFiles}
        /\ \A p \in DOMAIN n.preFiles : n.postFiles[Carried(n, p)] = n.preFiles[p]
        /\ Cardinality(DOMAIN n.postFiles) = Cardinality(DOMAIN n.preFiles)
        /\ Cardinality(n.postDirs) <= Cardinality(n.preDirs)
        /\ \A p \in n.preDirs \cup DOMAIN n.preFiles :
             ~ Below(n.dir, p) => Carried(n, p) = p

\* pics was renamed with shot.png in it while photos, of the same category,
\* kept its name
C19_Witness ==
  /\ lastNorm.dir = R
  /\ R \o <<nPics>> \in lastNorm.preDirs
  /\ R \o <<nPics>> \notin lastNorm.postDirs
  /\ R \o <<nPhotos>> \in lastNorm.postDirs
  /\ R \o <<nImageFiles, nShotPng>> \in DOMAIN lastNorm.postFiles
  /\ R \o <<nImageFiles, nShotPng>> \notin DOMAIN lastNorm.preFiles

\* C20: an atomic transfer answers permission_denied for a permission error,
\* cross_device_error for a cross-volume error and unknown_failure for any
\* other error, and then every file, the source included, is where it was
\* with its content and the destination directory has the entries it had;
\* when it answers successful_transfer the file is at the free path it chose
\* in the destination directory and no longer at its source.
C20_AtomicTransferAllOrNothing ==
  (t_mode = "atomic_transfer_mode" /\ last.move # "none") =>
    /\ last.move \in file_move_status
    /\ last.move = "successful_transfer" <=> last.errc = "none"
    /\ last.errc = "permission_denied" => last.move = "permission_denied"
    /\ last.errc = "cross_device_link" => last.move = "cross_device_error"
    /\ last.errc \notin {"none", "permission_denied", "cross_device_link"} =>
         last.move = "unknown_failure"
    /\ last.move # "successful_transfer" =>
         /\ last.postFiles = last.preFiles
         /\ last.entry \in DOMAIN last.postFiles
         /\ Entries(last.postDirs, last.postFiles, last.destination)
              \subseteq Entries(last.preDirs, last.preFiles, last.destination)
    /\ last.move = "successful_transfer" =>
         /\ parent_path(last.target) = last.destination
         /\ ~ exists(last.preDirs, last.preFiles, last.target)
         /\ last.target \in DOMAIN last.postFiles
         /\ last.postFiles[last.target] = last.preFiles[last.entry]
         /\ last.entry \notin DOMAIN last.postFiles

\* an atomic move into an existing folder failed with a cross-volume error
C20_Witness ==
  /\ t_mode = "atomic_transfer_mode"
  /\ last.move = "cross_device_error"
  /\ last.creation = "already_exists"
  /\ last.destination \in last.preDirs
  /\ last.entry \in DOMAIN files

\* C21: a fallback transfer removes the source only once the copy stands at
\* the free path it chose: after every fallback-mode transfer either the
\* source is gone and the chosen path holds its content, or the source is at
\* its path with its content and the answer is permission_denied or
\* unknown_failure; the answer is never cross_device_error.
C21_FallbackRemovesAfterCopy ==
  (t_mode = "fallback_transfer_mode" /\ last.move # "none") =>
    /\ last.move \in {"successful_transfer", "permission_denied",
                      "unknown_failure"}
    /\ last.entry \notin DOMAIN last.postFiles =>
         /\ last.move = "successful_transfer"
         /\ last.target \in DOMAIN last.postFiles
         /\ last.postFiles[last.target] = last.preFiles[last.entry]
         /\ ~ exists(last.preDirs, last.preFiles, last.target)
    /\ last.move # "successful_transfer" =>
         /\ last.entry \in DOMAIN last.postFiles
         /\ last.postFiles[last.entry] = last.preFiles[last.entry]
    /\ last.move = "successful_transfer" =>
         last.entry \notin DOMAIN last.postFiles

\* a fallback copy into an existing folder failed and left the source alone
C21_Witness ==
  /\ t_mode = "fallback_transfer_mode"
  /\ last.move = "unknown_failure"
  /\ last.errc = "io_error"
  /\ last.creation = "already_exists"
  /\ last.entry \in DOMAIN files
  /\ files[last.entry] = last.preFiles[last.entry]

\* C22: when the previous run on this root aborted, whatever the mode of the
\* present run, every handle_file call on a file that the aborted run had
\* relocated answers already_in_correct_location and changes nothing, and
\* every such file keeps its name and content in a folder that carries the
\* name of its category.
C22_RerunKeepsRelocatedFiles ==
  (run >= 2 /\ prev.result \notin {"none", "success"}) =>
    /\ \A p \in DOMAIN files0 :
         files0[p] \in prev.relocated =>
           \E q \in DOMAIN files :
             /\ files[q] = files0[p]
             /\ filename(q) = filename(p)
             /\ filename(parent_path(q)) = classify_file_by_extension(q)
    /\ (last.status # "none" /\ last.preFiles[last.entry] \in prev.relocated) =>
         /\ last.status = "already_in_correct_location"
         /\ last.postFiles = last.preFiles
         /\ last.postDirs = last.preDirs

\* a fallback run after an atomic run that failed on a cross-volume move came
\* across a file the atomic run had relocated
C22_Witness ==
  /\ run = 2
  /\ prev.mode = "atomic_transfer_mode"
  /\ prev.result = "atomic_transfer_failed"
  /\ t_mode = "fallback_transfer_mode"
  /\ last.status = "already_in_correct_location"
  /\ last.preFiles[last.entry] \in prev.relocated
  /\ last.preFiles[last.entry] # last.entry

\* C23: every run terminates: a run that is in its loop is eventually done,
\* with an empty stack and nothing left to iterate, having returned success
\* or a fatal status or having been left by an exception, also when it
\* creates folders in, and moves files into, directories it has yet to visit.
C23_RunTerminates ==
  (pc \in {"loop", "iter"}) ~>
    (pc = "done" /\ directories = <<>> /\ todo = {} /\ result # "running")

\* a run returned success after it had visited a folder that stood on the
\* stack while the run moved a file into it
C23_Witness ==
  /\ pc = "done"
  /\ result = "success"
  /\ moves > 0
  /\ last.status = "already_in_correct_location"
  /\ last.dir \in dirs0
  /\ last.entry \notin DOMAIN files0

\* the directories below the root that a run found with a name starting
\* with '.'
DotDirectories ==
  {h \in dirs0 : Below(root, h) /\ filename(h)[1] = "."}

\* C24: a directory below the root whose name begins with '.' is never put
\* on the stack and never iterated, and during the run it keeps its path and
\* exactly the directories and files it held when the run started, each file
\* with its content: nothing is moved out of it, into it, renamed or created
\* in it.
C24_HiddenDirectoriesUntouched ==
  run >= 1 =>
    \A h \in DotDirectories :
      /\ \A i \in DOMAIN directories : directories[i] # h
      /\ current # h
      /\ last.status # "none" => last.dir # h
      /\ h \in dirs
      /\ {p \in dirs : Below(h, p)} = {p \in dirs0 : Below(h, p)}
      /\ {p \in DOMAIN files : Below(h, p)}
           = {p \in DOMAIN files0 : Below(h, p)}
      /\ \A p \in DOMAIN files0 : Below(h, p) => files[p] = files0[p]

\* a run returned success after it had moved a file of the root while a
\* folder named .git with a file of a known category stood next to it
C24_Witness ==
  /\ pc = "done"
  /\ result = "success"
  /\ root = R
  /\ moves > 0
  /\ R \o <<nGit>> \in DotDirectories
  /\ R \o <<nGit, nPhotoJPG>> \in DOMAIN files
  /\ R \o <<nPhotoJPG>> \in DOMAIN files0
  /\ R \o <<nPhotoJPG>> \notin DOMAIN files

\* the background runs of organize_directory in flight
InFlight == (IF Running THEN 1 ELSE 0) + ui.overlapped

\* C25: whatever the user clicks, picks, clears, types and answers, at most
\* one background run is in flight, no run is ever started while another
\* one is running or while a result waits to be handled, and from the click
\* until the last result of the click has been handled the organize button
\* is disabled.
C25_OneRunInFlight ==
  /\ InFlight <= 1
  /\ Running => ui.watching
  /\ ui.watching => ~ ui.organize_button

\* the run of the second click is in flight, the button disabled, after the
\* user cleared the path field under it
C25_Witness ==
  /\ ui.clicks = 2
  /\ Running
  /\ ~ ui.organize_button
  /\ ui.path_field = EmptyText
  /\ moves > 0

\* C26: a fallback retry runs on the root path the atomic run of the click
\* was started with.
C26_RetrySameRoot ==
  (ui.window = "open" /\ ui.retry) =>
    /\ t_mode = "fallback_transfer_mode"
    /\ root = ui.click_root

\* C27: once the work of a click is over (no future is watched any more)
\* the organize button is enabled and the progress bar hidden.
C27_ButtonRestored ==
  (ui.window = "open" /\ ui.clicks >= 1 /\ ~ ui.watching) =>
    /\ ui.organize_button
    /\ ~ ui.progress_bar

\* C28: a fallback run never returns atomic_transfer_failed and an atomic run
\* never returns fallback_transfer_failed; a click starts an atomic run, the
\* retry question is asked at most once per click, and a second run of a
\* click is a fallback run that follows an atomic run that returned
\* atomic_transfer_failed; there is no third.
C28_AtMostOneRetry ==
  /\ t_mode = "fallback_transfer_mode" => result # "atomic_transfer_failed"
  /\ t_mode = "atomic_transfer_mode" => result # "fallback_transfer_failed"
  /\ ui.click_runs <= 2
  /\ ui.questions <= 1
  /\ ui.click_runs = 1 => t_mode = "atomic_transfer_mode" /\ ~ ui.retry
  /\ ui.click_runs = 2 =>
       /\ ui.retry
       /\ ui.questions = 1
       /\ t_mode = "fallback_transfer_mode"
       /\ prev.mode = "atomic_transfer_mode"
       /\ prev.result = "atomic_transfer_failed"

\* the fallback retry of a click failed in its turn and its result was
\* handled without a second question
C28_Witness ==
  /\ ui.click_runs = 2
  /\ pc = "done"
  /\ result = "fallback_transfer_failed"
  /\ ui.handled = "fallback_transfer_failed"
  /\ ui.questions = 1
  /\ ui.organize_button


\* path p lies in the subtree of the root path of the run
UnderRoot(p) == Len(p) >= Len(root) /\ SubSeq(p, 1, Len(root)) = root

\* C29: when no filesystem operation fails, a run changes nothing outside the
\* subtree of its root: every directory and every file outside it is as it
\* was before the first run, the normalizer works on directories under the
\* root, and the destination directory of every move lies under the root,
\* whatever the name of the root.
C29_NothingOutsideRoot ==
  faults = 0 =>
    /\ \A p \in dirs \cup dirs0 :
         ~ UnderRoot(p) => p \in dirs /\ p \in dirs0
    /\ \A p \in DOMAIN files \cup DOMAIN files0 :
         ~ UnderRoot(p) =>
           /\ p \in DOMAIN files
           /\ p \in DOMAIN files0
           /\ files[p] = files0[p]
    /\ lastNorm.dir # <<>> => UnderRoot(lastNorm.dir)
    /\ last.status \notin {"none", "already_in_correct_location"} =>
         UnderRoot(last.destination)

\* C30: when no filesystem operation fails, in a folder whose name n the
\* normalizer takes for an alias of category C (n is no canonical name and n
\* in lower case is a key of ALIAS_LOOKUP), handle_file finds n in
\* ALIAS_LOOKUP with the same category, leaves a file in place exactly when
\* its category is C, and takes the parent of the folder as base location for
\* a file of another category.
C30_NormalizerAndHandleFileAgree ==
  (last.status # "none" /\ faults = 0) =>
    LET n == filename(last.dir)
    IN  IsAliasName(n) =>
          /\ n \in DOMAIN ALIAS_LOOKUP
          /\ ALIAS_LOOKUP[n] = AliasOf(n)
          /\ last.category = AliasOf(n)
               <=> last.status = "already_in_correct_location"
          /\ last.category # AliasOf(n) => last.base = parent_path(last.dir)

\* the directories on the way from the root down to path p, the root excluded
\* and p excluded
Between(p) == {SubSeq(p, 1, i) : i \in (Len(root) + 1) .. (Len(p) - 1)}

\* a regular file below the root that is in no directory with a hidden name
Visible(p) ==
  /\ Below(root, p)
  /\ \A h \in Between(p) : ~ Hidden(filename(h))

\* the directory that holds p carries the name of the category of p or a name
\* that is an alias of it
InCategoryFolder(p) ==
  LET n == filename(parent_path(p))
      C == classify_file_by_extension(p)
  IN  \/ n = C
      \/ IsAliasName(n) /\ AliasOf(n) = C

\* C31: after a run that returned success, every regular file below the root
\* that is in no hidden directory lies directly in a directory named after its
\* category (a canonical name or "Others") or after an alias of its category.
C31_EveryFileInCategoryFolder ==
  (pc = "done" /\ result = "success") =>
    \A p \in DOMAIN files : Visible(p) => InCategoryFolder(p)

\* a run on R returned success; it moved photo.JPG from a plain folder into a
\* category folder beside it and left the file in .git alone
C31_Witness ==
  /\ pc = "done"
  /\ result = "success"
  /\ root = R
  /\ R \o <<nDocs, nPhotoJPG>> \in DOMAIN files0
  /\ R \o <<nDocs, nImageFiles, nPhotoJPG>> \in DOMAIN files
  /\ R \o <<nGit, nPhotoJPG>> \in DOMAIN files
  /\ ~ Visible(R \o <<nGit, nPhotoJPG>>)
  /\ \E p \in DOMAIN files0 : Visible(p) /\ ~ InCategoryFolder(p)

\* C32: a transfer that does not answer successful_transfer, atomic or
\* fallback, leaves the file at its source path only: the source is at its
\* path with its content and no file that was not there before the call holds
\* that content, in the destination directory or elsewhere.
C32_FailedTransferLeavesFilesAlone ==
  last.move \notin {"none", "successful_transfer"} =>
    /\ last.entry \in DOMAIN last.postFiles
    /\ last.postFiles[last.entry] = last.preFiles[last.entry]
    /\ \A p \in DOMAIN last.postFiles \ DOMAIN last.preFiles :
         last.postFiles[p] # last.preFiles[last.entry]

\* C33: when the level being normalized holds a directory with the canonical
\* name of category C, empty or not, normalization leaves every alias folder
\* of C at that level under its own name and leaves the canonical directory
\* with exactly the directories and files it held.
C33_ExistingCanonicalFolderKept ==
  lastNorm.dir # <<>> =>
    \A e \in AliasFolders(lastNorm.preDirs, lastNorm.preFiles, lastNorm.dir) :
      LET canon == Append(lastNorm.dir, AliasCategory(e))
      IN  is_directory(lastNorm.preDirs, lastNorm.preFiles, canon) =>
            /\ e \in lastNorm.postDirs
            /\ canon \in lastNorm.postDirs
            /\ {p \in lastNorm.postDirs : Below(canon, p)}
                 = {p \in lastNorm.preDirs : Below(canon, p)}
            /\ {p \in DOMAIN lastNorm.postFiles : Below(canon, p)}
                 = {p \in DOMAIN lastNorm.preFiles : Below(canon, p)}

\* C34: every path on the stack names an existing directory, and so does the
\* path a normalization was given when it was popped; every path is pushed at
\* most once and popped at most once in a run, and only after it was pushed;
\* the stack holds no path twice and none that was popped; a directory other
\* than the root is pushed and popped only after its parent was popped, and
\* it is not popped while its parent is still being enumerated.
C34_StackDiscipline ==
  /\ \A i \in 1..Len(directories) :
       /\ is_directory(dirs, files, directories[i])
       /\ directories[i] \notin DOMAIN walk.popped
       /\ \A j \in 1..Len(directories) :
            i # j => directories[i] # directories[j]
  /\ lastNorm.dir # <<>> =>
       /\ lastNorm.dir \in lastNorm.preDirs
       /\ lastNorm.dir \in DOMAIN walk.popped
  /\ \A p \in DOMAIN walk.pushed :
       /\ walk.pushed[p] = 1
       /\ p # root => parent_path(p) \in DOMAIN walk.popped
  /\ \A p \in DOMAIN walk.popped :
       /\ walk.popped[p] = 1
       /\ p \in DOMAIN walk.pushed
       /\ p # root => ~ (pc = "iter" /\ current = parent_path(p))

\* a run on R returned success after it had popped R, the folder docs and the
\* folder Image Files, which it had created itself while it enumerated R
C34_Witness ==
  /\ pc = "done"
  /\ result = "success"
  /\ root = R
  /\ R \o <<nImageFiles>> \notin dirs0
  /\ {R, R \o <<nDocs>>, R \o <<nImageFiles>>} \subseteq DOMAIN walk.popped
  /\ DOMAIN walk.pushed = DOMAIN walk.popped

\* C35: the path get_unique_path chooses for a file whose name is taken in
\* the destination folder is free, differs from the name of the file, and has
\* the category of the file under classify_file_by_extension, for every
\* number of files of that name already in the folder.
C35_CollisionRenameKeepsCategory ==
  (pc = "answered" /\ last.status = "renamed") =>
    /\ last.target \notin DOMAIN last.preFiles
    /\ parent_path(last.target) = last.destination
    /\ filename(last.target) # filename(last.entry)
    /\ last.category = classify_file_by_extension(last.entry)

\* x.JPG arrived in a folder that held x.JPG and x(1).JPG and was placed as
\* x(2).JPG, an image file
C35_Witness ==
  /\ pc = "answered"
  /\ last.status = "renamed"
  /\ last.entry = <<XDot(<<"J", "P", "G">>)>>
  /\ last.target = R \o << <<"x", "(", "2", ")", ".", "J", "P", "G">> >>
  /\ last.category = nImageFiles

\* C36: when no filesystem operation fails and create_directory answered
\* already_exists or successful_creation to a handle_file call, a directory
\* stands at the destination path after the call; a path that holds a regular
\* file is answered with a failure.
C36_CreateDirectoryReportsDirectory ==
  (faults = 0
     /\ last.creation \in {"already_exists", "successful_creation"}) =>
    /\ is_directory(last.postDirs, last.postFiles, last.destination)
    /\ ~ is_regular_file(last.preDirs, last.preFiles, last.destination)

=============================================================================
